---- MODULE Spec2Model ----
(***************************************************************************)
(* Field-authorization plugin (createMultiEntityGrantsPlugin): the         *)
(* operation gate (didResolveOperation), the permission fetchers and the   *)
(* response redaction (willSendResponse, removeDisallowedMultiEntity).     *)
(*                                                                         *)
(* Conventions of the model                                                *)
(*  - A JSON value is a record: a scalar [k |-> "scalar", v |-> s], null   *)
(*    [k |-> "null", ...], an object [k |-> "obj", f |-> entries] whose    *)
(*    entries are [key, val] records in Object.keys order, or an array     *)
(*    [k |-> "arr", e |-> elements].                                       *)
(*  - A dotted path is the sequence of its dot-delimited segments: GraphQL *)
(*    response keys never contain a dot, so `${path}.${key}` followed by   *)
(*    split('.') yields exactly the keys walked.                           *)
(*  - Type tags range over schema type names; none of them is the name of  *)
(*    a member of Object.prototype.                                        *)
(***************************************************************************)
EXTENDS Naturals, Sequences, FiniteSets, TLC

VARIABLES
    arg, ret,                     \* the redaction as a function: its inputs, its results
    opts, grants,                 \* the plugin's options, the permission store behind grantsClient
    rc,                           \* per request: operation name, selections, headers
    rootFieldNames, rootTypename, \* per request: the variables of requestDidStart's closure
    pc, gate, error,              \* per request: where its hooks stand, the gate's outcome
    execQ,                        \* per request: the checkCanExecute calls of Promise.any
    verifyQ,                      \* per request: the verifyM2MToken call
    response,                     \* per request: rc.response.body
    allowedMap, union, viewQ,     \* per request: willSendResponse's allow-map and fetches
    ran, produced, walked         \* per request: resolvers executed, their data, tree walks made

redactVars == <<arg, ret>>

pluginVars == <<opts, grants>>

requestVars == <<rc, rootFieldNames, rootTypename, pc, gate, error, execQ, verifyQ,
                 response, allowedMap, union, viewQ, ran, produced, walked>>

vars == <<redactVars, pluginVars, requestVars>>

(***************************************************************************)
(* JSON values                                                             *)
(***************************************************************************)
Undefined == "undefined"

\* an object without keys used as a map: {}
NoMap == [x \in {} |-> Undefined]

Scalar(s) == [k |-> "scalar", v |-> s]

Null == [k |-> "null", v |-> "null"]

\* the value of a property that is not there
Missing == [k |-> "undefined", v |-> "undefined"]

Obj(entries) == [k |-> "obj", f |-> entries]

Arr(elems) == [k |-> "arr", e |-> elems]

Entry(key, val) == [key |-> key, val |-> val]

\* typeof val === 'object' alone, which null satisfies
IsObjectOrNull(n) == n.k \in {"obj", "arr"} \/ n = Null

\* val && typeof val === 'object'
IsObjectLike(n) == n.k \in {"obj", "arr"}

\* Object.keys(val).length
KeyCount(n) == IF n.k = "obj" THEN Len(n.f) ELSE IF n.k = "arr" THEN Len(n.e) ELSE 0

\* obj[key]
Get(o, key) ==
    IF \E i \in DOMAIN o.f : o.f[i].key = key
    THEN (o.f[CHOOSE i \in DOMAIN o.f : o.f[i].key = key]).val
    ELSE Missing

HasKey(o, key) == \E i \in DOMAIN o.f : o.f[i].key = key

\* obj.__typename as the string it holds (Undefined when absent, null or not a string)
OwnTypenameOf(o) ==
    IF HasKey(o, "__typename") /\ Get(o, "__typename").k = "scalar"
    THEN Get(o, "__typename").v
    ELSE Undefined

(***************************************************************************)
(* Strings: a header value is the sequence of its characters               *)
(***************************************************************************)
\* headers.get(name) of a header that is not there
NoString == <<"null">>

\* !raw: null, undefined and the empty string are falsy
IsFalsyString(raw) == raw = NoString \/ raw = <<>>

RECURSIVE Split(_, _)
Split(str, sep) ==
    IF \E i \in DOMAIN str : str[i] = sep
    THEN LET i == CHOOSE j \in DOMAIN str :
                      str[j] = sep /\ \A h \in 1..(j - 1) : str[h] # sep
         IN <<SubSeq(str, 1, i - 1)>> \o Split(SubSeq(str, i + 1, Len(str)), sep)
    ELSE <<str>>

IsSpace(c) == c \in {" ", "\t"}

\* a trim of the leading blanks only
RECURSIVE TrimStart(_)
TrimStart(str) ==
    IF str = <<>> THEN str
    ELSE IF IsSpace(Head(str)) THEN TrimStart(Tail(str))
    ELSE str

RECURSIVE Trim(_)
Trim(str) ==
    IF str = <<>> THEN str
    ELSE IF IsSpace(Head(str)) THEN Trim(Tail(str))
    ELSE IF IsSpace(str[Len(str)]) THEN Trim(SubSeq(str, 1, Len(str) - 1))
    ELSE str

\* filter(Boolean) on strings
NonEmpty(str) == str # <<>>

\* raw ? raw.split(',').map(s => s.trim()).filter(Boolean) : []
defaultParseGroups(raw) ==
    IF IsFalsyString(raw) THEN <<>>
    ELSE LET parts == Split(raw, ",")
         IN SelectSeq([i \in DOMAIN parts |-> Trim(parts[i])], NonEmpty)

(***************************************************************************)
(* Operation names: the sequence of their chunks, a chunk being "__", a    *)
(* run of digits or any other run of word characters                       *)
(***************************************************************************)
IsDigits(chunk) == chunk \in {"0", "1", "42"}

\* /__\w+__\d+$/ matches from chunk i to the end
SuffixMatchesAt(name, i) ==
    /\ name[i] = "__"
    /\ \E j \in (i + 2)..(Len(name) - 1) :
          /\ name[j] = "__"
          /\ \A h \in (j + 1)..Len(name) : IsDigits(name[h])

\* rawOpName.replace(/__\w+__\d+$/, '')
StripOpSuffix(rawOpName) ==
    IF \E i \in DOMAIN rawOpName : SuffixMatchesAt(rawOpName, i)
    THEN LET i == CHOOSE j \in DOMAIN rawOpName :
                      /\ SuffixMatchesAt(rawOpName, j)
                      /\ \A h \in 1..(j - 1) : ~SuffixMatchesAt(rawOpName, h)
         IN SubSeq(rawOpName, 1, i - 1)
    ELSE rawOpName

\* a set that knows the schema query only
ServiceOnlyOps == {<<"_service">>}

FEDERATION_OPS ==
    {<<"_service">>, <<"__", "ApolloGetServiceDefinition", "__">>, <<"_entities">>}

(***************************************************************************)
(* The authorization header: the sequence of its space-separated words     *)
(***************************************************************************)
\* headers.get('authorization') || ''
NoAuthorization == <<"">>

ToLowerCase(word) == IF word \in {"Bearer", "BEARER", "bearer"} THEN "bearer" ELSE word

\* authHeader.toLowerCase().startsWith('bearer ')
IsBearer(authHeader) == Len(authHeader) >= 2 /\ ToLowerCase(authHeader[1]) = "bearer"

\* authHeader.split(' ')[1]
TokenOf(authHeader) == authHeader[2]

\* the tokens jsonwebtoken.verify accepts under the configured keys, issuer and audience
ValidTokens == {"good"}

(***************************************************************************)
(* The permission fetchers: what each returns on the reply to its query.   *)
(* A reply is [kind |-> "ok", list |-> records], or kind "error" (the      *)
(* observable errors) or "empty" (it completes without a value).           *)
(***************************************************************************)
Fulfilled(value) == [state |-> "fulfilled", value |-> value]

Rejected == [state |-> "rejected", value |-> FALSE]

ReplyKinds == {"ok", "error", "empty"}

\* a check that takes a record of the operation for a grant, whatever its canExecute
checkCanExecuteAnyRecord(reply, opName) ==
    IF reply.kind = "ok"
    THEN Fulfilled(\E i \in DOMAIN reply.list : reply.list[i].operationName = opName)
    ELSE Fulfilled(FALSE)

\* a check that lets the operation through when the store does not answer
checkCanExecuteFailOpen(reply, opName) ==
    IF reply.kind = "ok"
    THEN Fulfilled(\E i \in DOMAIN reply.list :
                      reply.list[i].operationName = opName /\ reply.list[i].canExecute)
    ELSE Fulfilled(TRUE)

\* a fetch that takes every record for a viewable field, whatever its canView
fetchViewableAnyRecord(reply) ==
    IF reply.kind = "ok"
    THEN Fulfilled({reply.list[i].fieldPath : i \in DOMAIN reply.list})
    ELSE Fulfilled({})

\* lastValueFrom(client.send(...)) resolves only on a reply that carries a value
checkCanExecute(reply, opName) ==
    IF reply.kind = "ok"
    THEN Fulfilled(\E i \in DOMAIN reply.list :
                      reply.list[i].operationName = opName /\ reply.list[i].canExecute)
    ELSE Fulfilled(FALSE)

fetchViewable(reply) ==
    IF reply.kind = "ok"
    THEN [state |-> "fulfilled",
          value |-> {reply.list[i].fieldPath : i \in {j \in DOMAIN reply.list : reply.list[j].canView}}]
    ELSE [state |-> "fulfilled", value |-> {}]

(***************************************************************************)
(* stripRootSegment                                                        *)
(***************************************************************************)
\* a normaliser that leaves every path as it is
stripNoSegment(fullPath, rootNames) == fullPath

\* a normaliser that drops the first segment of every dotted path
stripFirstSegment(fullPath, rootNames) ==
    IF Len(fullPath) > 1 THEN Tail(fullPath) ELSE fullPath

stripRootSegment(fullPath, rootNames) ==
    IF Len(fullPath) > 1 /\ fullPath[1] \in rootNames
    THEN Tail(fullPath)
    ELSE fullPath

(***************************************************************************)
(* removeDisallowedMultiEntity: the value left in place of obj             *)
(***************************************************************************)
\* a resolution by the raw tag: the own tag whenever there is one, else the parent's
ResolveRawTypename(ownTypename, currentTypename, aMap) ==
    IF ownTypename # Undefined THEN ownTypename ELSE currentTypename

\* finalTypename: the own tag when it is a key of the allow-map, else the parent's
ResolveTypename(ownTypename, currentTypename, aMap) ==
    IF ownTypename # Undefined /\ ownTypename \in DOMAIN aMap
    THEN ownTypename
    ELSE currentTypename

\* a choice that takes an empty allow-list for no allow-list
SetToUseIfNonEmpty(finalTypename, aMap, defaultAllowed) ==
    IF finalTypename # Undefined /\ finalTypename \in DOMAIN aMap /\ aMap[finalTypename] # {}
    THEN aMap[finalTypename]
    ELSE defaultAllowed

\* setToUse
SetToUse(finalTypename, aMap, defaultAllowed) ==
    IF finalTypename # Undefined /\ finalTypename \in DOMAIN aMap
    THEN aMap[finalTypename]
    ELSE defaultAllowed

\* the typename handed to the children of an object
ChildTypename(ownTypename, finalTypename) == finalTypename

\* a walk that keeps the discriminator as it keeps _id
IsReservedKeyOrTag(fieldKey) == fieldKey \in {"_id", "__typename"}

\* for (const fieldKey of Object.keys(obj)): keys that are skipped
IsReservedKey(fieldKey) == fieldKey = "_id"

\* the test of a scalar leaf: setToUse.has(stripRootSegment(subPath, rootFieldNames))
LeafAllowed(subPath, rootNames, setToUse) ==
    stripRootSegment(subPath, rootNames) \in setToUse

\* the test of a child container after the recursion: Object.keys(val).length === 0
\* a walk that leaves emptied containers in place
IsPrunedNever(val) == FALSE

\* a walk that also drops an array all of whose elements were emptied
IsPrunedWhenHollow(val) ==
    \/ KeyCount(val) = 0
    \/ val.k = "arr" /\ \A i \in DOMAIN val.e : KeyCount(val.e[i]) = 0

IsPruned(val) == KeyCount(val) = 0

RECURSIVE removeDisallowedMultiEntity(_, _, _, _, _, _)
removeDisallowedMultiEntity(obj, aMap, defaultAllowed, rootNames, currentTypename, path) ==
    IF obj.k = "arr"
    THEN Arr([i \in DOMAIN obj.e |->
                removeDisallowedMultiEntity(obj.e[i], aMap, defaultAllowed, rootNames,
                                            currentTypename, path)])
    ELSE IF obj.k = "obj"
    THEN LET ownTypename == OwnTypenameOf(obj)
             finalTypename == ResolveTypename(ownTypename, currentTypename, aMap)
             setToUse == SetToUse(finalTypename, aMap, defaultAllowed)
             visit(en) ==
                 IF IsReservedKey(en.key) \/ ~IsObjectLike(en.val)
                 THEN en
                 ELSE Entry(en.key,
                            removeDisallowedMultiEntity(en.val, aMap, defaultAllowed, rootNames,
                                ChildTypename(ownTypename, finalTypename),
                                Append(path, en.key)))
             visited == [i \in DOMAIN obj.f |-> visit(obj.f[i])]
             kept(en) ==
                 IF IsReservedKey(en.key) THEN TRUE
                 ELSE IF IsObjectLike(en.val) THEN ~IsPruned(en.val)
                 ELSE LeafAllowed(Append(path, en.key), rootNames, setToUse)
         IN Obj(SelectSeq(visited, kept))
    ELSE obj

(***************************************************************************)
(* The walk of the compiled plugin (dist): the typename of an object is    *)
(* its own tag when it has one, known to the allow-map or not, and that    *)
(* typename is what its children inherit                                   *)
(***************************************************************************)
\* const typename = ownTypename || currentTypename
InheritTypename(ownTypename, currentTypename) ==
    IF ownTypename # Undefined THEN ownTypename ELSE currentTypename

RECURSIVE removeDisallowedMultiEntityDist(_, _, _, _, _, _)
removeDisallowedMultiEntityDist(obj, aMap, defaultAllowed, rootNames, currentTypename, path) ==
    IF obj.k = "arr"
    THEN Arr([i \in DOMAIN obj.e |->
                removeDisallowedMultiEntityDist(obj.e[i], aMap, defaultAllowed, rootNames,
                                                currentTypename, path)])
    ELSE IF obj.k = "obj"
    THEN LET typename == InheritTypename(OwnTypenameOf(obj), currentTypename)
             setToUse == SetToUse(typename, aMap, defaultAllowed)
             visit(en) ==
                 IF IsReservedKey(en.key) \/ ~IsObjectLike(en.val)
                 THEN en
                 ELSE Entry(en.key,
                            removeDisallowedMultiEntityDist(en.val, aMap, defaultAllowed,
                                rootNames, typename, Append(path, en.key)))
             visited == [i \in DOMAIN obj.f |-> visit(obj.f[i])]
             kept(en) ==
                 IF IsReservedKey(en.key) THEN TRUE
                 ELSE IF IsObjectLike(en.val) THEN ~IsPruned(en.val)
                 ELSE LeafAllowed(Append(path, en.key), rootNames, setToUse)
         IN Obj(SelectSeq(visited, kept))
    ELSE obj

(***************************************************************************)
(* Inputs of the redaction: response trees, allow-maps, root field names   *)
(***************************************************************************)
MaxArr == 2

TypeTags == {"User", "Auth", "Ghost"}

TagChoices == {Undefined} \cup TypeTags

\* sequences over S of length 0..n
RECURSIVE SeqsUpTo(_, _)
SeqsUpTo(S, n) ==
    IF n = 0 THEN {<<>>}
    ELSE LET shorter == SeqsUpTo(S, n - 1)
         IN shorter \cup {Append(q, x) : q \in {p \in shorter : Len(p) = n - 1}, x \in S}

\* an object from optional fields: a field whose value is Missing is left out
Field(key, val) == IF val = Missing THEN <<>> ELSE <<Entry(key, val)>>

TagField(tag) == IF tag = Undefined THEN <<>> ELSE <<Entry("__typename", Scalar(tag))>>

\* embedded documents (the value of authData)
InnerObjects ==
    {Obj(TagField(tag) \o Field("name", name) \o Field("email", email) \o Field("_id", id)) :
        tag \in TagChoices, name \in {Missing, Scalar("Ann"), Null},
        email \in {Missing, Scalar("a@x.com")}, id \in {Missing, Scalar("1")}}

\* the elements of an embedded list
InnerElements ==
    {Obj(TagField(tag) \o Field("name", name)) :
        tag \in {Undefined, "Ghost"}, name \in {Missing, Scalar("Ann")}}

InnerValues ==
    InnerObjects \cup {Arr(q) : q \in SeqsUpTo(InnerElements, MaxArr)}

IdValues == {Missing, Scalar("1"), Obj(<<Entry("secret", Scalar("s"))>>), Obj(<<>>)}

\* records (the elements of a root field)
Records ==
    {Obj(TagField(tag) \o Field("name", name) \o Field("_id", id) \o Field("authData", inner)) :
        tag \in TagChoices, name \in {Missing, Scalar("Ann")},
        id \in IdValues, inner \in {Missing} \cup InnerValues}

RootValues ==
    Records \cup {Arr(<<rec>>) : rec \in Records} \cup {Arr(<<>>), Scalar("Ann")}

\* response data: one root field
Trees == {Obj(<<Entry("findAllUsers", v)>>) : v \in RootValues}

UserLists ==
    { {}, {<<"name">>}, {<<"name">>, <<"authData">>, <<"authData", "name">>, <<"__typename">>} }

AuthLists == { {}, {<<"authData", "name">>} }

AllowedMaps ==
    {[t \in {"User"} |-> u] : u \in UserLists}
        \cup {[t \in {"User", "Auth"} |-> IF t = "User" THEN u ELSE a] :
                u \in UserLists, a \in AuthLists}

DefaultLists == { {}, {<<"name">>} }

RootNameSets == { {}, {"findAllUsers"} }

ParentTypes == {Undefined, "User"}

(***************************************************************************)
(* The redaction applied to every input, once and then again on its result *)
(***************************************************************************)
InitRedact ==
    /\ opts = [entityNameMap |-> <<>>, m2mVerificationConfig |-> FALSE, rootTypenameMap |-> NoMap]
    /\ grants = [ops |-> NoMap, fields |-> NoMap]
    /\ rc = NoMap /\ rootFieldNames = NoMap /\ rootTypename = NoMap /\ pc = NoMap
    /\ gate = NoMap /\ error = NoMap /\ execQ = NoMap /\ verifyQ = NoMap
    /\ response = NoMap /\ allowedMap = NoMap /\ union = NoMap /\ viewQ = NoMap
    /\ ran = NoMap /\ produced = NoMap /\ walked = NoMap
    /\ arg \in [obj : Trees, allowedMap : AllowedMaps, defaultAllowed : DefaultLists,
                 rootFieldNames : RootNameSets, currentTypename : ParentTypes]
    /\ ret = <<>>

Redact(o) ==
    removeDisallowedMultiEntity(o, arg.allowedMap, arg.defaultAllowed, arg.rootFieldNames,
                                arg.currentTypename, <<>>)

\* removeDisallowedMultiEntity(data, allowedMap, defaultAllowed, rootFieldNames, ...)
CallRedact ==
    /\ ret = <<>>
    /\ ret' = <<Redact(arg.obj)>>
    /\ UNCHANGED <<arg, pluginVars, requestVars>>

\* the same call on the tree the first call left behind
CallRedactAgain ==
    /\ Len(ret) = 1
    /\ ret' = Append(ret, Redact(ret[1]))
    /\ UNCHANGED <<arg, pluginVars, requestVars>>

NextRedact == CallRedact \/ CallRedactAgain

SpecRedact == InitRedact /\ [][NextRedact]_vars

\* the same call made to the walk of the compiled plugin
CallRedactDist ==
    /\ ret = <<>>
    /\ ret' = <<removeDisallowedMultiEntityDist(arg.obj, arg.allowedMap, arg.defaultAllowed,
                    arg.rootFieldNames, arg.currentTypename, <<>>)>>
    /\ UNCHANGED <<arg, pluginVars, requestVars>>

NextRedactDist == CallRedactDist

SpecRedactDist == InitRedact /\ [][NextRedactDist]_vars

(***************************************************************************)
(* removeDisallowed, the walk of createGrantsAuthorizationPlugin: one      *)
(* allow-list, full paths, and _id kept where the path itself is "_id"     *)
(***************************************************************************)
RECURSIVE removeDisallowed(_, _, _)
removeDisallowed(obj, allowedFields, path) ==
    IF obj.k = "arr"
    THEN Arr([i \in DOMAIN obj.e |-> removeDisallowed(obj.e[i], allowedFields, path)])
    ELSE IF obj.k = "obj"
    THEN LET isKept(subPath) == subPath = <<"_id">>
             visit(en) ==
                 IF isKept(Append(path, en.key)) \/ ~IsObjectLike(en.val)
                 THEN en
                 ELSE Entry(en.key, removeDisallowed(en.val, allowedFields, Append(path, en.key)))
             visited == [i \in DOMAIN obj.f |-> visit(obj.f[i])]
             kept(en) ==
                 IF isKept(Append(path, en.key)) THEN TRUE
                 ELSE IF IsObjectLike(en.val) THEN KeyCount(en.val) # 0
                 ELSE Append(path, en.key) \in allowedFields
         IN Obj(SelectSeq(visited, kept))
    ELSE obj

\* the unions of viewable paths the plugin may have fetched
FieldSets == { {}, {<<"name">>}, {<<"findAllUsers", "name">>, <<"findAllUsers", "_id">>} }

InitRemove ==
    /\ opts = [entityNameMap |-> <<>>, m2mVerificationConfig |-> FALSE, rootTypenameMap |-> NoMap]
    /\ grants = [ops |-> NoMap, fields |-> NoMap]
    /\ rc = NoMap /\ rootFieldNames = NoMap /\ rootTypename = NoMap /\ pc = NoMap
    /\ gate = NoMap /\ error = NoMap /\ execQ = NoMap /\ verifyQ = NoMap
    /\ response = NoMap /\ allowedMap = NoMap /\ union = NoMap /\ viewQ = NoMap
    /\ ran = NoMap /\ produced = NoMap /\ walked = NoMap
    /\ arg \in [obj : Trees \cup {Obj(Field("_id", id) \o Field("name", Scalar("Ann"))) :
                                     id \in IdValues},
                 allowedFields : FieldSets]
    /\ ret = <<>>

CallRemoveDisallowed ==
    /\ ret = <<>>
    /\ ret' = <<removeDisallowed(arg.obj, arg.allowedFields, <<>>)>>
    /\ UNCHANGED <<arg, pluginVars, requestVars>>

NextRemove == CallRemoveDisallowed

SpecRemove == InitRemove /\ [][NextRemove]_vars

(***************************************************************************)
(* defaultParseGroups applied to every short header value                  *)
(***************************************************************************)
MaxStr == 5

HeaderChars == {"A", "B", ",", " "}

HeaderValues == {NoString} \cup SeqsUpTo(HeaderChars, MaxStr)

InitParse ==
    /\ opts = [entityNameMap |-> <<>>, m2mVerificationConfig |-> FALSE, rootTypenameMap |-> NoMap]
    /\ grants = [ops |-> NoMap, fields |-> NoMap]
    /\ rc = NoMap /\ rootFieldNames = NoMap /\ rootTypename = NoMap /\ pc = NoMap
    /\ gate = NoMap /\ error = NoMap /\ execQ = NoMap /\ verifyQ = NoMap
    /\ response = NoMap /\ allowedMap = NoMap /\ union = NoMap /\ viewQ = NoMap
    /\ ran = NoMap /\ produced = NoMap /\ walked = NoMap
    /\ arg \in [raw : HeaderValues]
    /\ ret = <<>>

\* parseGroups(rawGroups)
CallParseGroups ==
    /\ ret = <<>>
    /\ ret' = <<defaultParseGroups(arg.raw)>>
    /\ UNCHANGED <<arg, pluginVars, requestVars>>

NextParse == CallParseGroups

SpecParse == InitParse /\ [][NextParse]_vars

(***************************************************************************)
(* The plugin on a request: configuration, store and requests              *)
(***************************************************************************)
GroupA == <<"A">>

GroupB == <<"B">>

OpFindAllUsers == <<"findAllUsers">>

OpPerm(name, can) == [operationName |-> name, canExecute |-> can]

FieldPerm(fieldPath, can) == [fieldPath |-> fieldPath, canView |-> can]

\* grantsClient.send('FIND_OP_PERMISSIONS_BY_GROUP', {groupId})
OpPermissions(groupId) ==
    IF groupId \in DOMAIN grants.ops THEN grants.ops[groupId] ELSE <<>>

\* grantsClient.send('FIND_PERMISSIONS_BY_GROUP', {groupId, entityName})
FieldPermissions(groupId, entityName) ==
    IF <<groupId, entityName>> \in DOMAIN grants.fields
    THEN grants.fields[<<groupId, entityName>>]
    ELSE <<>>

Reply(kind, list) == [kind |-> kind, list |-> IF kind = "ok" THEN list ELSE <<>>]

OpsStores ==
    {[g \in {GroupA, GroupB} |-> IF g = GroupA THEN a ELSE b] :
        a \in {<<>>, <<OpPerm(OpFindAllUsers, TRUE)>>, <<OpPerm(OpFindAllUsers, FALSE)>>},
        b \in {<<OpPerm(OpFindAllUsers, TRUE)>>, <<OpPerm(<<"findOneUser">>, TRUE)>>}}

FieldStores ==
    {[p \in {<<GroupA, "User">>, <<GroupB, "User">>} |->
        IF p[1] = GroupA
        THEN <<FieldPerm(<<"name">>, TRUE), FieldPerm(<<"email">>, FALSE)>>
        ELSE b] :
        b \in {<<>>, <<FieldPerm(<<"authData", "email">>, TRUE)>>}}

EntityNameMaps ==
    { <<[typename |-> "User", entityName |-> "User"]>>,
      <<[typename |-> "User", entityName |-> "User"],
        [typename |-> "Auth", entityName |-> "User"]>> }

RootTypenameMaps == {NoMap, [n \in {OpFindAllUsers} |-> "User"]}

Headers(authorization, xUserGroups) ==
    [present |-> TRUE, authorization |-> authorization, xUserGroups |-> xUserGroups]

NoHeaders == [present |-> FALSE, authorization |-> NoAuthorization, xUserGroups |-> NoString]

HeaderChoices ==
    {NoHeaders}
        \cup {Headers(a, NoString) : a \in {<<"Bearer", "good">>, <<"bearer", "bad">>}}
        \cup {Headers(<<"BEARER", "good">>, GroupA)}
        \cup {Headers(<<"Basic", "good">>, GroupA)}
        \cup {Headers(NoAuthorization, x) :
                x \in {NoString, <<>>, <<" ", ",">>, <<"A">>, <<"A", ",", "B">>,
                       <<"B", ",", " ", "A">>}}

OpNameChoices ==
    {OpFindAllUsers, <<"findAllUsers", "__", "users", "__", "0">>,
     <<"_service">>, <<"__", "ApolloGetServiceDefinition", "__">>, <<"_entities">>}

Requests ==
    [operationName : OpNameChoices, selections : {<<"findAllUsers">>}, headers : HeaderChoices]

\* the data the resolvers may produce
UserRecord ==
    Obj(<<Entry("__typename", Scalar("User")), Entry("name", Scalar("Ann")),
          Entry("email", Scalar("a@x.com")), Entry("_id", Scalar("1"))>>)

E2EResponse == Obj(<<Entry("findAllUsers", Arr(<<UserRecord>>))>>)

NestedResponse ==
    Obj(<<Entry("findAllUsers",
            Obj(<<Entry("name", Scalar("Ann")),
                  Entry("authData",
                        Obj(<<Entry("__typename", Scalar("Auth")),
                              Entry("email", Scalar("a@x.com"))>>))>>))>>)

FindOneResponse == Obj(<<Entry("findOneUser", UserRecord)>>)

ResponseTrees == {E2EResponse, NestedResponse, FindOneResponse}

\* the keys of the data are root fields the operation selects
RootKeys(tree) == {tree.f[i].key : i \in DOMAIN tree.f}

NoError == [kind |-> "none", opName |-> <<>>, groups |-> <<>>]

Denial(kind, opName, groups) == [kind |-> kind, opName |-> opName, groups |-> groups]

NoResponse == [kind |-> "none", data |-> Missing]

Reqs == DOMAIN pc

\* the scope that holds the variables of the function createMultiEntityGrantsPlugin
\* itself, of which there is one for every request the plugin serves
PluginScope == 0

\* where request r reads and writes rootFieldNames: the closure of its own
\* requestDidStart, or the scope of the plugin in the compiled build, which declares
\* the variable before `return { async requestDidStart() {`
Closure(r) == IF opts.build = "dist" THEN PluginScope ELSE r

Init ==
    /\ arg = <<>>
    /\ ret = <<>>
    /\ opts \in [entityNameMap : EntityNameMaps, m2mVerificationConfig : BOOLEAN,
                  rootTypenameMap : RootTypenameMaps, build : {"part_002"}]
    /\ grants \in [ops : OpsStores, fields : FieldStores]
    /\ rc \in [{1} -> Requests]
    /\ rootFieldNames = [r \in {1} |-> {}]
    /\ rootTypename = [r \in {1} |-> Undefined]
    /\ pc = [r \in {1} |-> "didResolveOperation"]
    /\ gate = [r \in {1} |-> "pending"]
    /\ error = [r \in {1} |-> NoError]
    /\ execQ = [r \in {1} |-> <<>>]
    /\ verifyQ = [r \in {1} |-> "none"]
    /\ response = [r \in {1} |-> NoResponse]
    /\ allowedMap = [r \in {1} |-> NoMap]
    /\ union = [r \in {1} |-> {}]
    /\ viewQ = [r \in {1} |-> <<>>]
    /\ ran = [r \in {1} |-> FALSE]
    /\ produced = [r \in {1} |-> Missing]
    /\ walked = [r \in {1} |-> 0]

(***************************************************************************)
(* didResolveOperation                                                     *)
(***************************************************************************)
Range(seq) == {seq[i] : i \in DOMAIN seq}

\* a gate that sends a Bearer credential it cannot verify on to the group check
GatePathWithoutConfig(request, m2mConfig) ==
    LET headers == request.headers
    IN IF request.operationName \in FEDERATION_OPS THEN "federation"
       ELSE IF ~headers.present THEN "noHeaders"
       ELSE IF IsBearer(headers.authorization) /\ m2mConfig THEN "verifyM2MToken"
       ELSE IF IsFalsyString(headers.xUserGroups) THEN "noGroups"
       ELSE IF defaultParseGroups(headers.xUserGroups) = <<>> THEN "emptyGroups"
       ELSE "checkCanExecute"

\* a gate that treats a request without headers as one with empty headers
GatePathWithoutHeaderTest(request, m2mConfig) ==
    LET headers == request.headers
    IN IF request.operationName \in FEDERATION_OPS THEN "federation"
       ELSE IF IsBearer(headers.authorization)
       THEN (IF ~m2mConfig THEN "noM2MConfig" ELSE "verifyM2MToken")
       ELSE IF IsFalsyString(headers.xUserGroups) THEN "noGroups"
       ELSE IF defaultParseGroups(headers.xUserGroups) = <<>> THEN "emptyGroups"
       ELSE "checkCanExecute"

\* how far the synchronous part of didResolveOperation gets on a request
GatePath(request, m2mConfig) ==
    LET headers == request.headers
    IN IF request.operationName \in FEDERATION_OPS THEN "federation"
       ELSE IF ~headers.present THEN "noHeaders"
       ELSE IF IsBearer(headers.authorization)
       THEN (IF ~m2mConfig THEN "noM2MConfig" ELSE "verifyM2MToken")
       ELSE IF IsFalsyString(headers.xUserGroups) THEN "noGroups"
       ELSE IF defaultParseGroups(headers.xUserGroups) = <<>> THEN "emptyGroups"
       ELSE "checkCanExecute"

\* a combinator that waits for a promise fulfilled with true
PromiseAnyGrant(promises, i) ==
    IF promises[i].state = "fulfilled" /\ promises[i].value THEN Fulfilled(TRUE)
    ELSE IF \A j \in DOMAIN promises : promises[j].state = "rejected" THEN Rejected
    ELSE [state |-> "pending", value |-> FALSE]

\* Promise.any(promises) once promise i has settled, nothing having settled it before:
\* it takes the value of the promise that fulfils first, and rejects once all have rejected
PromiseAny(promises, i) ==
    IF promises[i].state = "fulfilled" THEN Fulfilled(promises[i].value)
    ELSE IF \A j \in DOMAIN promises : promises[j].state = "rejected" THEN Rejected
    ELSE [state |-> "pending", value |-> FALSE]

Proceed(r) ==
    /\ gate' = [gate EXCEPT ![r] = "proceed"]
    /\ pc' = [pc EXCEPT ![r] = "execute"]
    /\ UNCHANGED error

\* throw new Error(...)
Deny(r, e) ==
    /\ gate' = [gate EXCEPT ![r] = "deny"]
    /\ pc' = [pc EXCEPT ![r] = "sendErrorResponse"]
    /\ error' = [error EXCEPT ![r] = e]

DidResolveOperation(r) ==
    /\ pc[r] = "didResolveOperation"
    /\ LET rawOpName == rc[r].operationName
           opName == StripOpSuffix(rawOpName)
           groups == defaultParseGroups(rc[r].headers.xUserGroups)
           path == GatePath(rc[r], opts.m2mVerificationConfig)
       IN /\ IF opts.build = "dist"
             THEN /\ rootFieldNames' =
                        [rootFieldNames EXCEPT ![Closure(r)] = Range(rc[r].selections)]
                  /\ UNCHANGED rootTypename
             ELSE IF path = "federation"
             THEN UNCHANGED <<rootTypename, rootFieldNames>>
             ELSE /\ rootTypename' =
                        IF opName \in DOMAIN opts.rootTypenameMap
                        THEN [rootTypename EXCEPT ![Closure(r)] = opts.rootTypenameMap[opName]]
                        ELSE rootTypename
                  /\ rootFieldNames' =
                        [rootFieldNames EXCEPT ![Closure(r)] = Range(rc[r].selections)]
          /\ CASE path \in {"federation", "noHeaders"} ->
                    Proceed(r) /\ UNCHANGED <<execQ, verifyQ>>
               [] path = "noM2MConfig" ->
                    Deny(r, Denial("noM2MConfig", <<>>, <<>>)) /\ UNCHANGED <<execQ, verifyQ>>
               [] path = "verifyM2MToken" ->
                    /\ verifyQ' = [verifyQ EXCEPT ![r] = "pending"]
                    /\ pc' = [pc EXCEPT ![r] = "verifyM2MToken"]
                    /\ UNCHANGED <<gate, error, execQ>>
               [] path = "noGroups" ->
                    Deny(r, Denial("noGroups", opName, <<>>)) /\ UNCHANGED <<execQ, verifyQ>>
               [] path = "emptyGroups" ->
                    Deny(r, Denial("emptyGroups", <<>>, <<>>)) /\ UNCHANGED <<execQ, verifyQ>>
               [] OTHER ->
                    /\ execQ' = [execQ EXCEPT ![r] =
                                   [i \in DOMAIN groups |->
                                       [groupId |-> groups[i], opName |-> opName,
                                        reply |-> "pending", state |-> "pending",
                                        value |-> FALSE]]]
                    /\ pc' = [pc EXCEPT ![r] = "PromiseAny"]
                    /\ UNCHANGED <<gate, error, verifyQ>>
    /\ UNCHANGED <<redactVars, pluginVars, rc, produced, response, allowedMap, union, viewQ, ran, walked>>

\* a hook that carries on when the verification fails
VerifySettleFailOpen(r, ok) ==
    /\ pc[r] = "verifyM2MToken"
    /\ ok => TokenOf(rc[r].headers.authorization) \in ValidTokens
    /\ verifyQ' = [verifyQ EXCEPT ![r] = IF ok THEN "ok" ELSE "failed"]
    /\ Proceed(r)
    /\ UNCHANGED <<redactVars, pluginVars, rc, produced, rootFieldNames, rootTypename, execQ,
                   response, allowedMap, union, viewQ, ran, walked>>

\* verifyM2MToken settles: jsonwebtoken.verify calls back with or without an error
VerifySettle(r, ok) ==
    /\ pc[r] = "verifyM2MToken"
    /\ ok => TokenOf(rc[r].headers.authorization) \in ValidTokens
    /\ verifyQ' = [verifyQ EXCEPT ![r] = IF ok THEN "ok" ELSE "failed"]
    /\ IF ok THEN Proceed(r) ELSE Deny(r, Denial("verifyFailed", <<>>, <<>>))
    /\ UNCHANGED <<redactVars, pluginVars, rc, produced, rootFieldNames, rootTypename, execQ,
                   response, allowedMap, union, viewQ, ran, walked>>

\* the store answers the query of the i-th checkCanExecute call
ExecSettle(r, i, kind) ==
    /\ i \in DOMAIN execQ[r]
    /\ execQ[r][i].reply = "pending"
    /\ LET q == execQ[r][i]
           res == checkCanExecute(Reply(kind, OpPermissions(q.groupId)), q.opName)
           promises == [execQ[r] EXCEPT ![i] =
                          [q EXCEPT !.reply = kind, !.state = res.state, !.value = res.value]]
           any == PromiseAny(promises, i)
           canExe == any.state = "fulfilled" /\ any.value
       IN /\ execQ' = [execQ EXCEPT ![r] = promises]
          /\ IF pc[r] = "PromiseAny" /\ any.state # "pending"
             THEN IF canExe
                  THEN Proceed(r)
                  ELSE Deny(r, Denial("notAllowed", q.opName,
                                      defaultParseGroups(rc[r].headers.xUserGroups)))
             ELSE UNCHANGED <<gate, pc, error>>
    /\ UNCHANGED <<redactVars, pluginVars, rc, produced, rootFieldNames, rootTypename, verifyQ,
                   response, allowedMap, union, viewQ, ran, walked>>

(***************************************************************************)
(* The server between the hooks: it executes an operation the gate let     *)
(* through, and answers a thrown error with a response without data        *)
(***************************************************************************)
Execute(r, tree) ==
    /\ pc[r] = "execute"
    /\ RootKeys(tree) \subseteq {rc[r].selections[i] : i \in DOMAIN rc[r].selections}
    /\ response' = [response EXCEPT ![r] = [kind |-> "single", data |-> tree]]
    /\ ran' = [ran EXCEPT ![r] = TRUE]
    /\ produced' = [produced EXCEPT ![r] = tree]
    /\ pc' = [pc EXCEPT ![r] = "willSendResponse"]
    /\ UNCHANGED <<redactVars, pluginVars, rc, rootFieldNames, rootTypename, gate, error,
                   execQ, verifyQ, allowedMap, union, viewQ, walked>>

ExecuteIncremental(r) ==
    /\ pc[r] = "execute"
    /\ response' = [response EXCEPT ![r] = [kind |-> "incremental", data |-> Missing]]
    /\ ran' = [ran EXCEPT ![r] = TRUE]
    /\ pc' = [pc EXCEPT ![r] = "willSendResponse"]
    /\ UNCHANGED <<redactVars, pluginVars, rc, produced, rootFieldNames, rootTypename, gate, error,
                   execQ, verifyQ, allowedMap, union, viewQ, walked>>

SendErrorResponse(r) ==
    /\ pc[r] = "sendErrorResponse"
    /\ response' = [response EXCEPT ![r] = [kind |-> "single", data |-> Missing]]
    /\ pc' = [pc EXCEPT ![r] = "willSendResponse"]
    /\ UNCHANGED <<redactVars, pluginVars, rc, produced, rootFieldNames, rootTypename, gate, error,
                   execQ, verifyQ, allowedMap, union, viewQ, ran, walked>>

(***************************************************************************)
(* willSendResponse                                                        *)
(***************************************************************************)
\* early returns that do not look for the data of the response
SkipsFilteringWhateverData(request, body) ==
    \/ body.kind # "single"
    \/ request.operationName \in FEDERATION_OPS
    \/ ~request.headers.present
    \/ IsBearer(request.headers.authorization)
    \/ IsFalsyString(request.headers.xUserGroups)
    \/ defaultParseGroups(request.headers.xUserGroups) = <<>>

\* early returns that do not look for a Bearer credential
SkipsFilteringWhateverCredential(request, body) ==
    \/ body.kind # "single"
    \/ body.data = Missing
    \/ request.operationName \in FEDERATION_OPS
    \/ ~request.headers.present
    \/ IsFalsyString(request.headers.xUserGroups)
    \/ defaultParseGroups(request.headers.xUserGroups) = <<>>

\* the early returns of willSendResponse
SkipsFiltering(request, body) ==
    \/ body.kind # "single"
    \/ body.data = Missing
    \/ request.operationName \in FEDERATION_OPS
    \/ ~request.headers.present
    \/ IsBearer(request.headers.authorization)
    \/ IsFalsyString(request.headers.xUserGroups)
    \/ defaultParseGroups(request.headers.xUserGroups) = <<>>

\* the k-th fetchViewable call of the two nested loops
FetchAt(k, groups) ==
    LET t == ((k - 1) \div Len(groups)) + 1
        g == ((k - 1) % Len(groups)) + 1
    IN [typename |-> opts.entityNameMap[t].typename, groupId |-> groups[g],
        entityName |-> opts.entityNameMap[t].entityName, reply |-> "pending",
        state |-> "pending", value |-> {}]

\* removeDisallowedMultiEntity(data, allowedMap, defaultAllowed, rootFieldNames, logger,
\* debug, rootTypename)
RootNamesRead(r) == rootFieldNames[Closure(r)]

RootTypeRead(r) == IF opts.build = "dist" THEN Undefined ELSE rootTypename[Closure(r)]

Walk(r, aMap) ==
    /\ response' = [response EXCEPT ![r].data =
                       IF opts.build = "dist"
                       THEN removeDisallowedMultiEntityDist(response[r].data, aMap, {},
                                RootNamesRead(r), RootTypeRead(r), <<>>)
                       ELSE removeDisallowedMultiEntity(response[r].data, aMap, {},
                                RootNamesRead(r), RootTypeRead(r), <<>>)]
    /\ walked' = [walked EXCEPT ![r] = @ + 1]
    /\ pc' = [pc EXCEPT ![r] = "done"]

WillSendResponse(r) ==
    /\ pc[r] = "willSendResponse"
    /\ LET groups == defaultParseGroups(rc[r].headers.xUserGroups)
       IN IF SkipsFiltering(rc[r], response[r])
          THEN /\ pc' = [pc EXCEPT ![r] = "done"]
               /\ UNCHANGED <<response, viewQ, walked>>
          ELSE IF opts.entityNameMap = <<>>
          THEN Walk(r, NoMap) /\ UNCHANGED viewQ
          ELSE /\ viewQ' = [viewQ EXCEPT ![r] = <<FetchAt(1, groups)>>]
               /\ pc' = [pc EXCEPT ![r] = "fetchViewable"]
               /\ UNCHANGED <<response, walked>>
    /\ UNCHANGED <<redactVars, pluginVars, rc, produced, rootFieldNames, rootTypename, gate, error,
                   execQ, verifyQ, allowedMap, union, ran>>

\* a loop over the type tags that stops after the first tag
IsFirstTagDone(k, nTags, nGroups) == k = nGroups

\* the two nested loops are over once the query of the last group for the last tag of
\* Object.keys(opts.entityNameMap) has been awaited
IsLastFetch(k, nTags, nGroups) == k = nTags * nGroups

\* an accumulation that keeps the paths of the last group only
UnionReplace(acc, partial) == partial

\* partial.forEach(f => union.add(f))
UnionAdd(acc, partial) == acc \cup partial

\* the store answers the query of the fetchViewable call that is awaited
FetchSettle(r, kind) ==
    /\ pc[r] = "fetchViewable"
    /\ LET groups == defaultParseGroups(rc[r].headers.xUserGroups)
           k == Len(viewQ[r])
           q == viewQ[r][k]
           partial == fetchViewable(Reply(kind, FieldPermissions(q.groupId, q.entityName)))
           settled == [viewQ[r] EXCEPT ![k] = [q EXCEPT !.reply = kind, !.state = partial.state,
                                                     !.value = partial.value]]
           newUnion == UnionAdd(union[r], partial.value)
           lastGroup == k % Len(groups) = 0
           newMap == IF lastGroup
                     THEN [t \in DOMAIN allowedMap[r] \cup {q.typename} |->
                              IF t = q.typename THEN newUnion ELSE allowedMap[r][t]]
                     ELSE allowedMap[r]
       IN IF partial.state = "rejected"
          THEN /\ pc' = [pc EXCEPT ![r] = "done"]
               /\ viewQ' = [viewQ EXCEPT ![r] = settled]
               /\ UNCHANGED <<response, walked, allowedMap, union>>
          ELSE /\ allowedMap' = [allowedMap EXCEPT ![r] = newMap]
               /\ union' = [union EXCEPT ![r] = IF lastGroup THEN {} ELSE newUnion]
               /\ IF IsLastFetch(k, Len(opts.entityNameMap), Len(groups))
                  THEN Walk(r, newMap) /\ viewQ' = [viewQ EXCEPT ![r] = settled]
                  ELSE /\ viewQ' = [viewQ EXCEPT ![r] = Append(settled, FetchAt(k + 1, groups))]
                       /\ UNCHANGED <<response, walked, pc>>
    /\ UNCHANGED <<redactVars, pluginVars, rc, produced, rootFieldNames, rootTypename, gate, error,
                   execQ, verifyQ, ran>>

Next ==
    \/ \E r \in Reqs : DidResolveOperation(r)
    \/ \E r \in Reqs, ok \in BOOLEAN : VerifySettle(r, ok)
    \/ \E r \in Reqs : \E i \in DOMAIN execQ[r], kind \in ReplyKinds : ExecSettle(r, i, kind)
    \/ \E r \in Reqs, tree \in ResponseTrees : Execute(r, tree)
    \/ \E r \in Reqs : ExecuteIncremental(r)
    \/ \E r \in Reqs : SendErrorResponse(r)
    \/ \E r \in Reqs : WillSendResponse(r)
    \/ \E r \in Reqs, kind \in ReplyKinds : FetchSettle(r, kind)

Spec == Init /\ [][Next]_vars

\* the server calls the hook of every request it has resolved, the verifier calls back,
\* and the store answers every query, with a list, an error or nothing
Fairness ==
    /\ WF_vars(\E r \in Reqs : DidResolveOperation(r))
    /\ WF_vars(\E r \in Reqs, ok \in BOOLEAN : VerifySettle(r, ok))
    /\ WF_vars(\E r \in Reqs : \E i \in DOMAIN execQ[r], kind \in ReplyKinds : ExecSettle(r, i, kind))

SpecLive == Init /\ [][Next]_vars /\ Fairness

(***************************************************************************)
(* One plugin instance serving two requests in flight: the hooks of the    *)
(* two requests interleave at every await                                  *)
(***************************************************************************)
OpFindOneUser == <<"findOneUser">>

InitIso ==
    /\ arg = <<>>
    /\ ret = <<>>
    /\ opts \in [entityNameMap : {<<[typename |-> "User", entityName |-> "User"]>>},
                  m2mVerificationConfig : {TRUE},
                  rootTypenameMap : RootTypenameMaps, build : {"part_002", "dist"}]
    /\ grants \in [ops : {[g \in {GroupA, GroupB} |->
                             IF g = GroupA THEN <<OpPerm(OpFindAllUsers, TRUE)>>
                                           ELSE <<OpPerm(OpFindOneUser, TRUE)>>]},
                    fields : FieldStores]
    /\ rc \in {[r \in {1, 2} |-> IF r = 1 THEN first ELSE second] :
                 first \in [operationName : {OpFindAllUsers}, selections : {<<"findAllUsers">>},
                            headers : {Headers(NoAuthorization, <<"A">>)}],
                 second \in [operationName : {OpFindOneUser}, selections : {<<"findOneUser">>},
                             headers : {Headers(NoAuthorization, <<"B">>),
                                        Headers(<<"Bearer", "good">>, NoString)}]}
    /\ rootFieldNames = [c \in {PluginScope, 1, 2} |-> {}]
    /\ rootTypename = [c \in {PluginScope, 1, 2} |-> Undefined]
    /\ pc = [r \in {1, 2} |-> "didResolveOperation"]
    /\ gate = [r \in {1, 2} |-> "pending"]
    /\ error = [r \in {1, 2} |-> NoError]
    /\ execQ = [r \in {1, 2} |-> <<>>]
    /\ verifyQ = [r \in {1, 2} |-> "none"]
    /\ response = [r \in {1, 2} |-> NoResponse]
    /\ allowedMap = [r \in {1, 2} |-> NoMap]
    /\ union = [r \in {1, 2} |-> {}]
    /\ viewQ = [r \in {1, 2} |-> <<>>]
    /\ ran = [r \in {1, 2} |-> FALSE]
    /\ produced = [r \in {1, 2} |-> Missing]
    /\ walked = [r \in {1, 2} |-> 0]

SpecIso == InitIso /\ [][Next]_vars

(***************************************************************************)
(* createGrantsAuthorizationPlugin: the plugin of one entity, whose gate   *)
(* knows the header x-internal-federation-call                             *)
(***************************************************************************)
FlaggedHeaders(fedFlag, authorization, xUserGroups) ==
    [present |-> TRUE, authorization |-> authorization, xUserGroups |-> xUserGroups,
     xInternalFederationCall |-> fedFlag]

\* fedFlag === '1'
IsFederationCall(headers) == headers.xInternalFederationCall = <<"1">>

GrantsHeaderChoices ==
    {NoHeaders}
        \cup {FlaggedHeaders(f, a, x) :
                f \in {NoString, <<"1">>, <<"0">>},
                a \in {NoAuthorization, <<"Bearer", "good">>, <<"bearer", "bad">>,
                       <<"Basic", "good">>},
                x \in {NoString, <<" ", ",">>, <<"A">>, <<"A", ",", "B">>}}

GrantsRequests ==
    [operationName : {OpFindAllUsers, <<"_service">>}, selections : {<<"findAllUsers">>},
     headers : GrantsHeaderChoices]

InitGrants ==
    /\ arg = <<>>
    /\ ret = <<>>
    /\ opts \in [entityName : {"User"}, m2mVerificationConfig : BOOLEAN]
    /\ grants \in [ops : OpsStores, fields : FieldStores]
    /\ rc \in [{1} -> GrantsRequests]
    /\ rootFieldNames = [r \in {1} |-> {}]
    /\ rootTypename = [r \in {1} |-> Undefined]
    /\ pc = [r \in {1} |-> "didResolveOperation"]
    /\ gate = [r \in {1} |-> "pending"]
    /\ error = [r \in {1} |-> NoError]
    /\ execQ = [r \in {1} |-> <<>>]
    /\ verifyQ = [r \in {1} |-> "none"]
    /\ response = [r \in {1} |-> NoResponse]
    /\ allowedMap = [r \in {1} |-> NoMap]
    /\ union = [r \in {1} |-> {}]
    /\ viewQ = [r \in {1} |-> <<>>]
    /\ ran = [r \in {1} |-> FALSE]
    /\ produced = [r \in {1} |-> Missing]
    /\ walked = [r \in {1} |-> 0]

\* a gate that does not look at the flag
GatePathGrantsWithoutFlag(request, m2mConfig) ==
    LET headers == request.headers
    IN IF ~headers.present THEN "noHeaders"
       ELSE IF IsBearer(headers.authorization)
       THEN (IF ~m2mConfig THEN "noM2MConfig" ELSE "verifyM2MToken")
       ELSE IF IsFalsyString(headers.xUserGroups) THEN "noGroups"
       ELSE IF defaultParseGroups(headers.xUserGroups) = <<>> THEN "emptyGroups"
       ELSE "checkCanExecute"

\* how far the synchronous part of didResolveOperation gets on a request
GatePathGrants(request, m2mConfig) ==
    LET headers == request.headers
    IN IF ~headers.present THEN "noHeaders"
       ELSE IF IsFederationCall(headers)
       THEN (IF ~m2mConfig THEN "flagNoM2MConfig"
             ELSE IF ~IsBearer(headers.authorization) THEN "flagNoBearer"
             ELSE "verifyM2MToken")
       ELSE IF IsBearer(headers.authorization)
       THEN (IF ~m2mConfig THEN "noM2MConfig" ELSE "verifyM2MToken")
       ELSE IF IsFalsyString(headers.xUserGroups) THEN "noGroups"
       ELSE IF defaultParseGroups(headers.xUserGroups) = <<>> THEN "emptyGroups"
       ELSE "checkCanExecute"

GrantsDidResolveOperation(r) ==
    /\ pc[r] = "didResolveOperation"
    /\ LET opName == rc[r].operationName
           groups == defaultParseGroups(rc[r].headers.xUserGroups)
           path == GatePathGrants(rc[r], opts.m2mVerificationConfig)
       IN CASE path = "noHeaders" ->
                    Proceed(r) /\ UNCHANGED <<execQ, verifyQ>>
            [] path \in {"flagNoM2MConfig", "flagNoBearer", "noM2MConfig", "emptyGroups"} ->
                    Deny(r, Denial(path, <<>>, <<>>)) /\ UNCHANGED <<execQ, verifyQ>>
            [] path = "verifyM2MToken" ->
                    /\ verifyQ' = [verifyQ EXCEPT ![r] = "pending"]
                    /\ pc' = [pc EXCEPT ![r] = "verifyM2MToken"]
                    /\ UNCHANGED <<gate, error, execQ>>
            [] path = "noGroups" ->
                    Deny(r, Denial("noGroups", opName, <<>>)) /\ UNCHANGED <<execQ, verifyQ>>
            [] OTHER ->
                    /\ execQ' = [execQ EXCEPT ![r] =
                                   [i \in DOMAIN groups |->
                                       [groupId |-> groups[i], opName |-> opName,
                                        reply |-> "pending", state |-> "pending",
                                        value |-> FALSE]]]
                    /\ pc' = [pc EXCEPT ![r] = "PromiseAny"]
                    /\ UNCHANGED <<gate, error, verifyQ>>
    /\ UNCHANGED <<redactVars, pluginVars, rc, produced, rootFieldNames, rootTypename, response,
                   allowedMap, union, viewQ, ran, walked>>

\* the early returns of willSendResponse
GrantsSkipsFiltering(request, body) ==
    \/ body.kind # "single"
    \/ body.data = Missing
    \/ ~request.headers.present
    \/ IsFederationCall(request.headers)
    \/ IsBearer(request.headers.authorization)
    \/ IsFalsyString(request.headers.xUserGroups)
    \/ defaultParseGroups(request.headers.xUserGroups) = <<>>

\* the k-th fetchViewable call of the loop over the groups
GrantsFetchAt(k, groups) ==
    [typename |-> Undefined, groupId |-> groups[k], entityName |-> opts.entityName,
     reply |-> "pending", state |-> "pending", value |-> {}]

GrantsWillSendResponse(r) ==
    /\ pc[r] = "willSendResponse"
    /\ LET groups == defaultParseGroups(rc[r].headers.xUserGroups)
       IN IF GrantsSkipsFiltering(rc[r], response[r])
          THEN /\ pc' = [pc EXCEPT ![r] = "done"]
               /\ UNCHANGED viewQ
          ELSE /\ viewQ' = [viewQ EXCEPT ![r] = <<GrantsFetchAt(1, groups)>>]
               /\ pc' = [pc EXCEPT ![r] = "fetchViewable"]
    /\ UNCHANGED <<redactVars, pluginVars, rc, produced, rootFieldNames, rootTypename, gate, error,
                   execQ, verifyQ, response, allowedMap, union, ran, walked>>

\* the store answers the query of the fetchViewable call that is awaited
GrantsFetchSettle(r, kind) ==
    /\ pc[r] = "fetchViewable"
    /\ LET groups == defaultParseGroups(rc[r].headers.xUserGroups)
           k == Len(viewQ[r])
           q == viewQ[r][k]
           viewable == fetchViewable(Reply(kind, FieldPermissions(q.groupId, q.entityName)))
           settled == [viewQ[r] EXCEPT ![k] = [q EXCEPT !.reply = kind, !.state = viewable.state,
                                                     !.value = viewable.value]]
           newUnion == UnionAdd(union[r], viewable.value)
       IN /\ union' = [union EXCEPT ![r] = newUnion]
          /\ IF k = Len(groups)
             THEN /\ response' = [response EXCEPT ![r].data =
                                     removeDisallowed(response[r].data, newUnion, <<>>)]
                  /\ walked' = [walked EXCEPT ![r] = @ + 1]
                  /\ pc' = [pc EXCEPT ![r] = "done"]
                  /\ viewQ' = [viewQ EXCEPT ![r] = settled]
             ELSE /\ viewQ' = [viewQ EXCEPT ![r] = Append(settled, GrantsFetchAt(k + 1, groups))]
                  /\ UNCHANGED <<response, walked, pc>>
    /\ UNCHANGED <<redactVars, pluginVars, rc, produced, rootFieldNames, rootTypename, gate, error,
                   execQ, verifyQ, allowedMap, ran>>

NextGrants ==
    \/ \E r \in Reqs : GrantsDidResolveOperation(r)
    \/ \E r \in Reqs, ok \in BOOLEAN : VerifySettle(r, ok)
    \/ \E r \in Reqs : \E i \in DOMAIN execQ[r], kind \in ReplyKinds : ExecSettle(r, i, kind)
    \/ \E r \in Reqs, tree \in ResponseTrees : Execute(r, tree)
    \/ \E r \in Reqs : ExecuteIncremental(r)
    \/ \E r \in Reqs : SendErrorResponse(r)
    \/ \E r \in Reqs : GrantsWillSendResponse(r)
    \/ \E r \in Reqs, kind \in ReplyKinds : GrantsFetchSettle(r, kind)

SpecGrants == InitGrants /\ [][NextGrants]_vars

(***************************************************************************)
(* What the claims say of the redaction, stated on the input and the       *)
(* redacted tree without the operators of the walk                         *)
(***************************************************************************)
\* the type a claim resolves for object o under an enclosing resolved type
ClaimedType(o, enclosingType) ==
    IF HasKey(o, "__typename") /\ Get(o, "__typename").k = "scalar"
          /\ Get(o, "__typename").v \in DOMAIN arg.allowedMap
    THEN Get(o, "__typename").v
    ELSE enclosingType

\* allowedMap[type] when type is a key of allowedMap, otherwise defaultAllowed
ClaimedList(type) ==
    IF type \in DOMAIN arg.allowedMap THEN arg.allowedMap[type] ELSE arg.defaultAllowed

\* the root-stripped dotted path
ClaimedPath(path) ==
    IF Len(path) > 1 /\ Head(path) \in arg.rootFieldNames THEN Tail(path) ELSE path

\* every scalar field present in outN (the redacted inN) other than keys named _id is
\* allowed for the type of its enclosing object; belowId tells whether the values of
\* _id keys are looked into
RECURSIVE ScalarsAllowed(_, _, _, _, _)
ScalarsAllowed(inN, outN, enclosingType, path, belowId) ==
    IF outN.k = "arr"
    THEN \A i \in DOMAIN outN.e :
            ScalarsAllowed(inN.e[i], outN.e[i], enclosingType, path, belowId)
    ELSE IF outN.k = "obj"
    THEN LET type == ClaimedType(inN, enclosingType)
         IN \A i \in DOMAIN outN.f :
               LET en == outN.f[i]
               IN IF en.key = "_id" /\ ~(belowId /\ IsObjectLike(en.val))
                  THEN TRUE
                  ELSE IF IsObjectLike(en.val)
                  THEN ScalarsAllowed(Get(inN, en.key), en.val, type,
                                      Append(path, en.key), belowId)
                  ELSE ClaimedPath(Append(path, en.key)) \in ClaimedList(type)
    ELSE TRUE

\* C1 as claimed: after removeDisallowedMultiEntity returns, every scalar field still
\* present, other than keys named _id, has its root-stripped path in the allow-list of
\* the type resolved for its enclosing object.
C1_AsClaimed ==
    Len(ret) >= 1 => ScalarsAllowed(arg.obj, ret[1], arg.currentTypename, <<>>, TRUE)

\* C1 as amended: the same of every scalar field still present that is neither a key
\* named _id nor inside the value of a key named _id (the walk skips an _id key with
\* all that its value holds).
C1_ScalarsAllowedOutsideId ==
    Len(ret) >= 1 => ScalarsAllowed(arg.obj, ret[1], arg.currentTypename, <<>>, FALSE)

\* the end-to-end record and its redaction under User -> {name}
E2EInput ==
    Obj(<<Entry("findAllUsers",
            Arr(<<Obj(<<Entry("__typename", Scalar("User")), Entry("name", Scalar("Ann")),
                        Entry("_id", Scalar("1"))>>)>>))>>)

E2EOutput ==
    Obj(<<Entry("findAllUsers",
            Arr(<<Obj(<<Entry("name", Scalar("Ann")), Entry("_id", Scalar("1"))>>)>>))>>)

C1_Witness ==
    /\ Len(ret) >= 1
    /\ arg.obj = E2EInput
    /\ arg.allowedMap = [t \in {"User"} |-> {<<"name">>}]
    /\ arg.rootFieldNames = {"findAllUsers"}
    /\ ret[1] = E2EOutput

\* C5 as claimed: running the redaction a second time on the already redacted tree
\* changes nothing.
C5_Idempotent == Len(ret) = 2 => ret[2] = ret[1]

\* in every object outside the values of _id keys, the scalar fields that survive are
\* exactly the scalar fields allowed for the type the claim resolves for that object
RECURSIVE ScalarsFollowType(_, _, _, _)
ScalarsFollowType(inN, outN, enclosingType, path) ==
    IF inN.k = "arr"
    THEN /\ outN.k = "arr"
         /\ Len(outN.e) = Len(inN.e)
         /\ \A i \in DOMAIN inN.e :
               ScalarsFollowType(inN.e[i], outN.e[i], enclosingType, path)
    ELSE IF inN.k = "obj"
    THEN LET type == ClaimedType(inN, enclosingType)
         IN /\ outN.k = "obj"
            /\ \A i \in DOMAIN inN.f :
                  LET en == inN.f[i]
                  IN IF en.key = "_id"
                     THEN TRUE
                     ELSE IF IsObjectLike(en.val)
                     THEN HasKey(outN, en.key) =>
                              ScalarsFollowType(en.val, Get(outN, en.key), type,
                                                Append(path, en.key))
                     ELSE HasKey(outN, en.key)
                              <=> ClaimedPath(Append(path, en.key)) \in ClaimedList(type)
    ELSE TRUE

\* C10: an object whose own __typename is a key of the allow-map resolves to its own
\* tag, any other object resolves to the resolved type of its nearest enclosing object,
\* and the resolved type is what its children get as their parent type: the scalar
\* fields kept in every object are exactly those its so resolved type allows.
C10_TypeResolution ==
    Len(ret) >= 1 => ScalarsFollowType(arg.obj, ret[1], arg.currentTypename, <<>>)

\* a record with an unrecognised tag under a root resolved to User, holding an untagged
\* embedded document: both are filtered with the allow-list of User
C10_Input ==
    Obj(<<Entry("findAllUsers",
            Obj(<<Entry("__typename", Scalar("Ghost")), Entry("name", Scalar("Ann")),
                  Entry("authData", Obj(<<Entry("name", Scalar("Ann"))>>))>>))>>)

C10_Output ==
    Obj(<<Entry("findAllUsers",
            Obj(<<Entry("__typename", Scalar("Ghost")), Entry("name", Scalar("Ann")),
                  Entry("authData", Obj(<<Entry("name", Scalar("Ann"))>>))>>))>>)

C10_Witness ==
    /\ Len(ret) >= 1
    /\ arg.obj = C10_Input
    /\ arg.allowedMap =
          [t \in {"User"} |-> {<<"name">>, <<"authData">>, <<"authData", "name">>, <<"__typename">>}]
    /\ arg.defaultAllowed = {}
    /\ arg.rootFieldNames = {"findAllUsers"}
    /\ arg.currentTypename = "User"
    /\ ret[1] = C10_Output

(***************************************************************************)
(* What the claims say of a request, stated on its headers, the store and  *)
(* what the hooks have left behind                                         *)
(***************************************************************************)
\* the caller's groups, and whether the store holds a grant of the operation for one
GroupsOf(r) == defaultParseGroups(rc[r].headers.xUserGroups)

HasGrant(groupId, opName) ==
    \E i \in DOMAIN OpPermissions(groupId) :
        /\ OpPermissions(groupId)[i].operationName = opName
        /\ OpPermissions(groupId)[i].canExecute

\* an end-user caller: headers, no Bearer credential, an operation that is not
\* bypassed, and a group list
IsEndUser(r) ==
    /\ rc[r].headers.present
    /\ ~IsBearer(rc[r].headers.authorization)
    /\ rc[r].operationName \notin FEDERATION_OPS
    /\ GroupsOf(r) # <<>>

\* the setting of the end-to-end example: the single group A that may execute
\* findAllUsers and view name of User, User -> User, the example's response, and a
\* store that answered every query
IsEndToEnd(r) ==
    /\ IsEndUser(r)
    /\ GroupsOf(r) = <<GroupA>>
    /\ StripOpSuffix(rc[r].operationName) = OpFindAllUsers
    /\ HasGrant(GroupA, OpFindAllUsers)
    /\ opts.entityNameMap = <<[typename |-> "User", entityName |-> "User"]>>
    /\ Range(rc[r].selections) = {"findAllUsers"}
    /\ produced[r] = E2EResponse
    /\ \A i \in DOMAIN execQ[r] : execQ[r][i].reply = "ok"
    /\ \A i \in DOMAIN viewQ[r] : viewQ[r][i].reply = "ok"

\* C2: the end-to-end example, through the gate and then willSendResponse, obtains
\* exactly {findAllUsers: [{name, _id}]}: email and __typename are removed, name and
\* _id are kept, and the array keeps its single element.
C2_EndToEnd ==
    \A r \in Reqs : IsEndToEnd(r) /\ pc[r] = "done" => response[r].data = E2EOutput

C2_Witness ==
    \E r \in Reqs :
        /\ IsEndToEnd(r)
        /\ pc[r] = "done"
        /\ gate[r] = "proceed"
        /\ walked[r] = 1
        /\ response[r].data = E2EOutput

\* C3 as claimed: if at least one group of the caller has a record of the operation
\* with canExecute = true, and the store answers so, didResolveOperation does not
\* deny, whatever the other groups answer and in whatever order the queries complete.
C3_OrAcrossGroups ==
    \A r \in Reqs :
        (\E i \in DOMAIN execQ[r] :
            /\ execQ[r][i].reply = "ok"
            /\ HasGrant(execQ[r][i].groupId, execQ[r][i].opName))
        => gate[r] # "deny"

C6_FailClosedFetch ==
    \A r \in Reqs :
        /\ \A i \in DOMAIN execQ[r] :
              execQ[r][i].reply \in {"error", "empty"} =>
                  execQ[r][i].state = "fulfilled" /\ execQ[r][i].value = FALSE
        /\ \A i \in DOMAIN viewQ[r] :
              viewQ[r][i].reply \in {"error", "empty"} =>
                  viewQ[r][i].state = "fulfilled" /\ viewQ[r][i].value = {}

\* a caller that got through on the answer for one group while the query for another
\* group, which holds the grant too, failed, and whose first viewable query, for a
\* group with viewable fields, completed without a value
C6_Witness ==
    \E r \in Reqs :
        /\ \E i \in DOMAIN execQ[r] :
              /\ execQ[r][i].reply = "error"
              /\ HasGrant(execQ[r][i].groupId, execQ[r][i].opName)
              /\ execQ[r][i].value = FALSE
        /\ gate[r] = "proceed"
        /\ Len(viewQ[r]) >= 1
        /\ viewQ[r][1].reply = "empty"
        /\ \E i \in DOMAIN FieldPermissions(viewQ[r][1].groupId, viewQ[r][1].entityName) :
              FieldPermissions(viewQ[r][1].groupId, viewQ[r][1].entityName)[i].canView
        /\ viewQ[r][1].value = {}
        /\ pc[r] = "done"

\* C7: the gate decides once, in didResolveOperation, before any resolver runs; if it
\* denies, no resolver executes, the response carries no data, and willSendResponse
\* makes no permission query and no tree walk for that request.
C7_DenyIsFinal ==
    /\ [][\A r \in Reqs : gate[r] # "pending" => gate'[r] = gate[r]]_vars
    /\ [][\A r \in Reqs : gate'[r] # gate[r] => ~ran[r]]_vars
    /\ [](\A r \in Reqs :
            /\ ran[r] => gate[r] = "proceed"
            /\ gate[r] = "deny" =>
                  /\ ~ran[r]
                  /\ response[r].data = Missing
                  /\ viewQ[r] = <<>>
                  /\ walked[r] = 0)

\* a caller of group A, denied for want of a grant, whose willSendResponse has returned
C7_Witness ==
    \E r \in Reqs :
        /\ IsEndUser(r)
        /\ gate[r] = "deny"
        /\ error[r].kind = "notAllowed"
        /\ pc[r] = "done"
        /\ response[r] = [kind |-> "single", data |-> Missing]

\* C8: when the request carries a Bearer credential that verifies, didResolveOperation
\* proceeds without any canExecute query, and willSendResponse returns the response
\* data unchanged: no field removed, no viewable-fields query issued.
C8_ServiceIdentity ==
    \A r \in Reqs :
        verifyQ[r] = "ok" =>
            /\ gate[r] = "proceed"
            /\ execQ[r] = <<>>
            /\ viewQ[r] = <<>>
            /\ walked[r] = 0
            /\ pc[r] = "done" => response[r].data = produced[r]

\* a verified Bearer credential next to a group header, the example's response sent whole
C8_Witness ==
    \E r \in Reqs :
        /\ verifyQ[r] = "ok"
        /\ rc[r].headers.xUserGroups = GroupA
        /\ pc[r] = "done"
        /\ produced[r] = E2EResponse
        /\ response[r] = [kind |-> "single", data |-> E2EResponse]

\* the gate neither proceeds nor asks the store about the groups of request r
DeniedWithoutGroupCheck(r) ==
    /\ gate[r] # "proceed"
    /\ execQ[r] = <<>>
    /\ pc[r] # "didResolveOperation" => gate[r] = "deny" /\ error[r].kind = "noM2MConfig"

\* C9 as claimed: a Bearer credential on a request whose plugin has no
\* m2mVerificationConfig is always denied by didResolveOperation: the gate never
\* proceeds and never falls through to the group check.
C9_AsClaimed ==
    \A r \in Reqs :
        rc[r].headers.present /\ IsBearer(rc[r].headers.authorization)
              /\ ~opts.m2mVerificationConfig
            => DeniedWithoutGroupCheck(r)

\* C9 as amended: the same of every request whose operation name is not one of the
\* federation operations, which return before the credential is looked at.
C9_BearerWithoutConfigDenied ==
    \A r \in Reqs :
        rc[r].headers.present /\ IsBearer(rc[r].headers.authorization)
              /\ ~opts.m2mVerificationConfig
              /\ rc[r].operationName \notin FEDERATION_OPS
            => DeniedWithoutGroupCheck(r)

\* a Bearer credential next to the header of a group that holds the grant
C9_Witness ==
    \E r \in Reqs :
        /\ ~opts.m2mVerificationConfig
        /\ IsBearer(rc[r].headers.authorization)
        /\ rc[r].operationName = OpFindAllUsers
        /\ GroupsOf(r) = <<GroupA>>
        /\ HasGrant(GroupA, OpFindAllUsers)
        /\ gate[r] = "deny"
        /\ error[r].kind = "noM2MConfig"
        /\ execQ[r] = <<>>

(***************************************************************************)
(* Further claims on the redaction                                         *)
(***************************************************************************)
\* the paths of the scalar leaves of n outside the values of _id keys (an array adds
\* no segment)
RECURSIVE LeafPaths(_, _)
LeafPaths(n, path) ==
    IF n.k = "arr" THEN UNION {LeafPaths(n.e[i], path) : i \in DOMAIN n.e}
    ELSE IF n.k = "obj"
    THEN UNION {IF n.f[i].key = "_id" THEN {}
                ELSE IF IsObjectLike(n.f[i].val)
                THEN LeafPaths(n.f[i].val, Append(path, n.f[i].key))
                ELSE {Append(path, n.f[i].key)} : i \in DOMAIN n.f}
    ELSE {}

\* a record under findAllUsers whose embedded authData holds a name and an email, the
\* list of the type resolved for authData allowing authData.name, not authData.email
IsStripExample ==
    /\ Len(ret) >= 1
    /\ arg.rootFieldNames = {"findAllUsers"}
    /\ LET rec == Get(arg.obj, "findAllUsers")
           auth == Get(rec, "authData")
       IN /\ rec.k = "obj" /\ auth.k = "obj"
          /\ Get(auth, "name").k = "scalar" /\ Get(auth, "email").k = "scalar"
          /\ LET list == ClaimedList(ClaimedType(auth, ClaimedType(rec, arg.currentTypename)))
             IN <<"authData", "name">> \in list /\ <<"authData", "email">> \notin list

\* C11: stripRootSegment removes the first segment exactly when the path has more than
\* one segment and the first is a member of rootNames, and returns the path unchanged
\* otherwise; so with rootFieldNames = {findAllUsers} and authData.name allowed for the
\* resolved type, the leaf findAllUsers.authData.name is kept and the leaf
\* findAllUsers.authData.email is removed.
C11_RootSegmentStripping ==
    /\ \A p \in LeafPaths(arg.obj, <<>>), rootNames \in RootNameSets \cup {{"authData"}} :
          stripRootSegment(p, rootNames) =
              IF Len(p) > 1 /\ Head(p) \in rootNames
              THEN SubSeq(p, 2, Len(p))
              ELSE p
    /\ IsStripExample =>
          LET auth == Get(Get(ret[1], "findAllUsers"), "authData")
          IN HasKey(auth, "name") /\ ~HasKey(auth, "email")

C11_Witness ==
    /\ IsStripExample
    /\ <<"findAllUsers", "authData", "name">> \in LeafPaths(arg.obj, <<>>)
    /\ arg.allowedMap = [t \in {"User", "Auth"} |->
                            IF t = "User" THEN {<<"name">>} ELSE {<<"authData", "name">>}]
    /\ Get(Get(arg.obj, "findAllUsers"), "authData") =
          Obj(<<Entry("__typename", Scalar("Auth")), Entry("name", Scalar("Ann")),
                Entry("email", Scalar("a@x.com"))>>)
    /\ Get(Get(ret[1], "findAllUsers"), "authData") = Obj(<<Entry("name", Scalar("Ann"))>>)

\* no object or array without keys is the value of a key other than _id in n or below;
\* with elementsToo, no element of an array is an object without keys either
RECURSIVE NoEmptyContainer(_, _)
NoEmptyContainer(n, elementsToo) ==
    IF n.k = "arr"
    THEN \A i \in DOMAIN n.e :
            /\ elementsToo /\ n.e[i].k = "obj" => KeyCount(n.e[i]) > 0
            /\ NoEmptyContainer(n.e[i], elementsToo)
    ELSE IF n.k = "obj"
    THEN \A i \in DOMAIN n.f :
            n.f[i].key # "_id" /\ IsObjectLike(n.f[i].val) =>
                /\ KeyCount(n.f[i].val) > 0
                /\ NoEmptyContainer(n.f[i].val, elementsToo)
    ELSE TRUE

\* C12 as claimed: after redaction of any tree no zero-key object remains anywhere
\* below the root of the redacted tree.
C12_AsClaimed == Len(ret) >= 1 => NoEmptyContainer(ret[1], TRUE)

\* C12 as amended: after redaction of any tree, no object or array without keys is
\* left as the value of a key of an object (an element of an array is never removed,
\* and stays in its array when it is reduced to zero keys).
C12_EmptyValuesPruned == Len(ret) >= 1 => NoEmptyContainer(ret[1], FALSE)

\* an embedded document all of whose fields are redacted goes with its key
C12_Witness ==
    /\ Len(ret) >= 1
    /\ arg.obj = Obj(<<Entry("findAllUsers",
                         Obj(<<Entry("name", Scalar("Ann")),
                               Entry("authData", Obj(<<Entry("email", Scalar("a@x.com"))>>))>>))>>)
    /\ arg.rootFieldNames = {"findAllUsers"}
    /\ arg.currentTypename = "User"
    /\ arg.allowedMap = [t \in {"User"} |-> {<<"name">>}]
    /\ ret[1] = Obj(<<Entry("findAllUsers", Obj(<<Entry("name", Scalar("Ann"))>>))>>)

\* n holds a key named _id, at any depth
RECURSIVE HasId(_)
HasId(n) ==
    IF n.k = "arr" THEN \E i \in DOMAIN n.e : HasId(n.e[i])
    ELSE IF n.k = "obj"
    THEN \E i \in DOMAIN n.f : n.f[i].key = "_id" \/ HasId(n.f[i].val)
    ELSE FALSE

\* every key named _id of inN, at any depth, is in outN at the same place with the
\* same value
RECURSIVE IdsPreserved(_, _)
IdsPreserved(inN, outN) ==
    IF inN.k = "arr"
    THEN /\ outN.k = "arr"
         /\ Len(outN.e) = Len(inN.e)
         /\ \A i \in DOMAIN inN.e : IdsPreserved(inN.e[i], outN.e[i])
    ELSE IF inN.k = "obj"
    THEN /\ outN.k = "obj"
         /\ \A i \in DOMAIN inN.f :
               LET en == inN.f[i]
               IN IF en.key = "_id"
                  THEN HasKey(outN, "_id") /\ Get(outN, "_id") = en.val
                  ELSE HasId(en.val) =>
                          HasKey(outN, en.key) /\ IdsPreserved(en.val, Get(outN, en.key))
    ELSE TRUE

\* C13 as claimed: for any tree and any allow-lists, every key named _id present in
\* the input tree, at any depth, is still present with the same value after redaction.
C13_IdPreserved == Len(ret) >= 1 => IdsPreserved(arg.obj, ret[1])

\* every field present in a is present in b, at the same place
RECURSIVE FieldsWithin(_, _)
FieldsWithin(a, b) ==
    IF a.k = "arr"
    THEN /\ b.k = "arr"
         /\ Len(b.e) = Len(a.e)
         /\ \A i \in DOMAIN a.e : FieldsWithin(a.e[i], b.e[i])
    ELSE IF a.k = "obj"
    THEN /\ b.k = "obj"
         /\ \A i \in DOMAIN a.f :
               HasKey(b, a.f[i].key) /\ FieldsWithin(a.f[i].val, Get(b, a.f[i].key))
    ELSE a = b

\* the allow-maps over the type tags of A that allow, for every tag, at least what A does
WiderMaps(A) ==
    {B \in AllowedMaps : DOMAIN B = DOMAIN A /\ \A t \in DOMAIN A : A[t] \subseteq B[t]}

\* C14: for any tree and any two allow-maps A and B with A[t] a subset of B[t] for
\* every type t (same defaultAllowed, rootFieldNames and parent type), every field
\* present after redacting with A is also present after redacting with B.
C14_Monotone ==
    Len(ret) >= 1 =>
        \A B \in WiderMaps(arg.allowedMap) :
            FieldsWithin(ret[1],
                         removeDisallowedMultiEntity(arg.obj, B, arg.defaultAllowed,
                             arg.rootFieldNames, arg.currentTypename, <<>>))

\* with User -> {name} the record keeps its name; a wider list for User keeps it too
\* and more
C14_Witness ==
    /\ Len(ret) >= 1
    /\ arg.obj = C10_Input
    /\ arg.allowedMap = [t \in {"User"} |-> {<<"name">>}]
    /\ arg.rootFieldNames = {"findAllUsers"}
    /\ arg.currentTypename = "User"
    /\ ret[1] = Obj(<<Entry("findAllUsers", Obj(<<Entry("name", Scalar("Ann"))>>))>>)
    /\ \E B \in WiderMaps(arg.allowedMap) :
          /\ B # arg.allowedMap
          /\ removeDisallowedMultiEntity(arg.obj, B, arg.defaultAllowed,
                 arg.rootFieldNames, arg.currentTypename, <<>>) = C10_Output


\* the root type that the didResolveOperation of request r infers from its operation
InferredRootType(r) ==
    LET opName == StripOpSuffix(rc[r].operationName)
    IN IF opts.build # "dist" /\ opName \in DOMAIN opts.rootTypenameMap
       THEN opts.rootTypenameMap[opName]
       ELSE Undefined

\* C15: whenever the willSendResponse of a request walks its data, the root field names
\* and the root type the walk reads are those that the didResolveOperation of the same
\* request captured from its own operation, whatever the hooks of the other requests
\* in flight did in between.
C15_RequestIsolation ==
    [][\A r \in Reqs :
          walked'[r] # walked[r] =>
              /\ RootNamesRead(r) = Range(rc[r].selections)
              /\ RootTypeRead(r) = InferredRootType(r)]_vars


\* the three operation names of the federation machinery, as the server receives them
IsFederationName(rawOpName) ==
    \/ rawOpName = <<"_service">>
    \/ rawOpName = <<"__", "ApolloGetServiceDefinition", "__">>
    \/ rawOpName = <<"_entities">>

\* C16: a request whose raw operation name is _service, __ApolloGetServiceDefinition__
\* or _entities is never denied, no token of it is verified and no permission query is
\* issued for it, once past didResolveOperation it proceeds, and its data is never
\* walked: what it sends is what the resolvers produced, whatever its headers.
C16_FederationBypass ==
    \A r \in Reqs :
        IsFederationName(rc[r].operationName) =>
            /\ verifyQ[r] = "none"
            /\ execQ[r] = <<>>
            /\ viewQ[r] = <<>>
            /\ error[r] = NoError
            /\ pc[r] # "didResolveOperation" => gate[r] = "proceed"
            /\ walked[r] = 0
            /\ (pc[r] = "done" /\ response[r].kind = "single") =>
                   response[r].data = produced[r]

\* a federation query carrying a Bearer token the verifier would refuse, on a plugin
\* without verification configuration, has sent the data of the resolvers unchanged
C16_Witness ==
    \E r \in Reqs :
        /\ rc[r].operationName = <<"_entities">>
        /\ rc[r].headers = Headers(<<"bearer", "bad">>, NoString)
        /\ ~opts.m2mVerificationConfig
        /\ pc[r] = "done"
        /\ gate[r] = "proceed"
        /\ ran[r]
        /\ response[r] = [kind |-> "single", data |-> E2EResponse]


\* a request for an operation that is not bypassed, that carries no Bearer credential,
\* and whose x-user-groups claim is absent, empty, or parses to no group
IsUnclassifiable(r) ==
    /\ ~IsFederationName(rc[r].operationName)
    /\ ~IsBearer(rc[r].headers.authorization)
    /\ \/ IsFalsyString(rc[r].headers.xUserGroups)
       \/ defaultParseGroups(rc[r].headers.xUserGroups) = <<>>

\* C17: a request for a non-bypassed operation with no Bearer credential and no group
\* in its x-user-groups claim is denied by didResolveOperation, no permission query is
\* issued for it, no resolver runs and its response carries no data.
C17_UnclassifiableDenied ==
    \A r \in Reqs :
        IsUnclassifiable(r) =>
            /\ execQ[r] = <<>>
            /\ pc[r] # "didResolveOperation" => gate[r] = "deny"
            /\ ~ran[r]
            /\ response[r].data = Missing


\* the positions that bound the comma-separated segments of a string: before its first
\* character, at every comma, and after its last character
Cuts(str) == {0, Len(str) + 1} \cup {i \in DOMAIN str : str[i] = ","}

NextCut(str, b) == CHOOSE c \in Cuts(str) : c > b /\ \A d \in Cuts(str) : d > b => c <= d

\* the segment that starts after cut b, without the blanks around it
TrimmedSegment(str, b) ==
    LET inside == {i \in (b + 1)..(NextCut(str, b) - 1) : str[i] \notin {" ", "\t"}}
    IN IF inside = {} THEN <<>>
       ELSE LET first == CHOOSE i \in inside : \A j \in inside : i <= j
                last == CHOOSE i \in inside : \A j \in inside : i >= j
            IN SubSeq(str, first, last)

RECURSIVE SegmentsFrom(_, _)
SegmentsFrom(str, b) ==
    IF b > Len(str) THEN <<>>
    ELSE (IF TrimmedSegment(str, b) = <<>> THEN <<>> ELSE <<TrimmedSegment(str, b)>>)
             \o SegmentsFrom(str, NextCut(str, b))

\* C18: defaultParseGroups returns a list for every input: the empty list for null,
\* undefined and the empty string, and for every other string its comma-separated
\* segments in their order, each without the blanks around it, those that are then
\* empty left out.
C18_ParseGroups ==
    Len(ret) = 1 =>
        ret[1] = IF arg.raw = NoString \/ arg.raw = <<>> THEN <<>>
                 ELSE SegmentsFrom(arg.raw, 0)

\* "A ,,B": a padded segment, an empty one, a plain one
C18_Witness ==
    /\ Len(ret) = 1
    /\ arg.raw = <<"A", " ", ",", ",", "B">>
    /\ ret[1] = << <<"A">>, <<"B">> >>


\* the field paths that the store, asked for (groupId, entityName), returned with canView
\* set, when the query that was made got an answer; nothing when it failed
Contribution(q) ==
    IF q.reply = "ok"
    THEN LET list == FieldPermissions(q.groupId, q.entityName)
         IN {list[i].fieldPath : i \in {j \in DOMAIN list : list[j].canView = TRUE}}
    ELSE {}

EntityNameOf(T) ==
    LET i == CHOOSE j \in DOMAIN opts.entityNameMap : opts.entityNameMap[j].typename = T
    IN opts.entityNameMap[i].entityName

\* C19: the allow-list that willSendResponse has built for a type tag T is the union, over
\* all the groups of the caller, of the field paths returned with canView = true for the
\* group and the entity name of T, a group whose query failed adding nothing and
\* removing nothing; when the data is walked there is such a list for every tag of
\* entityNameMap.
C19_ViewUnion ==
    \A r \in Reqs :
        /\ \A T \in DOMAIN allowedMap[r] :
              LET qs == {i \in DOMAIN viewQ[r] : viewQ[r][i].typename = T}
              IN /\ {viewQ[r][i].groupId : i \in qs} = Range(GroupsOf(r))
                 /\ \A i \in qs : viewQ[r][i].entityName = EntityNameOf(T)
                 /\ allowedMap[r][T] = UNION {Contribution(viewQ[r][i]) : i \in qs}
        /\ walked[r] > 0 =>
              DOMAIN allowedMap[r] =
                  {opts.entityNameMap[i].typename : i \in DOMAIN opts.entityNameMap}

\* a caller of groups A and B on a store where each group may view a different path: the
\* query of group B failed, and the list of User holds the paths of group A
C19_Witness ==
    \E r \in Reqs :
        /\ walked[r] = 1
        /\ GroupsOf(r) = <<GroupA, GroupB>>
        /\ grants.fields[<<GroupB, "User">>] = <<FieldPerm(<<"authData", "email">>, TRUE)>>
        /\ viewQ[r][1].reply = "ok"
        /\ viewQ[r][2].reply = "error"
        /\ allowedMap[r]["User"] = {<<"name">>}


\* a request whose header x-internal-federation-call is the string 1
IsFlagged(r) ==
    /\ rc[r].headers.present
    /\ rc[r].headers.xInternalFederationCall = <<"1">>

\* C20: for a request flagged x-internal-federation-call = 1, no group is ever checked;
\* it proceeds only on a plugin with a verification configuration, with a Bearer
\* credential whose verification succeeded; without configuration, without Bearer
\* credential or once the verification has failed it is denied; and the gate is undecided
\* only until didResolveOperation and the verification it awaits are over.
C20_FederationFlag ==
    \A r \in Reqs :
        IsFlagged(r) =>
            /\ execQ[r] = <<>>
            /\ gate[r] = "proceed" =>
                  /\ opts.m2mVerificationConfig
                  /\ IsBearer(rc[r].headers.authorization)
                  /\ verifyQ[r] = "ok"
            /\ (pc[r] # "didResolveOperation" /\
                  (~opts.m2mVerificationConfig \/ ~IsBearer(rc[r].headers.authorization))) =>
                  gate[r] = "deny" /\ verifyQ[r] = "none"
            /\ verifyQ[r] = "failed" => gate[r] = "deny"
            /\ verifyQ[r] = "ok" => gate[r] = "proceed"
            /\ gate[r] = "pending" => pc[r] \in {"didResolveOperation", "verifyM2MToken"}
            /\ gate[r] = "deny" => ~ran[r] /\ response[r].data = Missing

\* a flagged call with a valid Bearer token and a group claim: verified, let through with
\* no permission query, and answered with the data of the resolvers
C20_Witness ==
    \E r \in Reqs :
        /\ rc[r].headers = FlaggedHeaders(<<"1">>, <<"Bearer", "good">>, <<"A">>)
        /\ opts.m2mVerificationConfig
        /\ verifyQ[r] = "ok"
        /\ gate[r] = "proceed"
        /\ execQ[r] = <<>>
        /\ pc[r] = "done"
        /\ response[r] = [kind |-> "single", data |-> E2EResponse]


\* C21: once a canExecute query of a request has answered with a grant the gate has let
\* the request through, whatever the other queries do; and a request is denied for want
\* of a grant only when every one of its queries has settled, never while a query is
\* pending.
C21_ShortCircuitAndSettle ==
    \A r \in Reqs :
        /\ (\E i \in DOMAIN execQ[r] :
               execQ[r][i].state = "fulfilled" /\ execQ[r][i].value = TRUE) =>
               gate[r] = "proceed"
        /\ (gate[r] = "deny" /\ execQ[r] # <<>>) =>
               \A i \in DOMAIN execQ[r] : execQ[r][i].reply # "pending"


TagsOf(map) == {map[i].typename : i \in DOMAIN map}

\* every fetchViewable call of the two loops of request r has been made and has settled,
\* and the allow-map has a list for every tag
MapComplete(r, queries, aMap) ==
    /\ Len(queries) = Len(opts.entityNameMap) * Len(GroupsOf(r))
    /\ \A i \in DOMAIN queries : queries[i].reply # "pending"
    /\ DOMAIN aMap = TagsOf(opts.entityNameMap)

\* C22: the step of willSendResponse that walks the data is taken when every
\* fetchViewable query for every (type tag, group) has settled, and it walks with the
\* allow-map complete; from the walk on, no query is issued and the allow-map does not
\* change.
C22_MapFrozenBeforeWalk ==
    /\ [](\A r \in Reqs : walked[r] > 0 => MapComplete(r, viewQ[r], allowedMap[r]))
    /\ [][\A r \in Reqs :
            walked'[r] # walked[r] =>
                /\ MapComplete(r, viewQ'[r], allowedMap'[r])
                /\ response'[r].data =
                      removeDisallowedMultiEntity(response[r].data, allowedMap'[r], {},
                          RootNamesRead(r), RootTypeRead(r), <<>>)]_vars
    /\ [][\A r \in Reqs :
            walked[r] > 0 =>
                /\ viewQ'[r] = viewQ[r]
                /\ allowedMap'[r] = allowedMap[r]
                /\ walked'[r] = walked[r]]_vars

\* two tags and two groups: four queries settled, one of them failed, then the walk
C22_Witness ==
    \E r \in Reqs :
        /\ walked[r] = 1
        /\ Len(opts.entityNameMap) = 2
        /\ Len(GroupsOf(r)) = 2
        /\ Len(viewQ[r]) = 4
        /\ viewQ[r][3].reply = "error"
        /\ DOMAIN allowedMap[r] = {"User", "Auth"}


EntityNames(map) == {map[i].entityName : i \in DOMAIN map}

\* C23: among the fetchViewable queries of one request no two are for the same group and
\* the same entity name, and when the data is walked there has been one for every group
\* of the caller and every entity name of entityNameMap.
C23_OncePerPair ==
    \A r \in Reqs :
        /\ \A i, j \in DOMAIN viewQ[r] :
              (viewQ[r][i].groupId = viewQ[r][j].groupId /\
               viewQ[r][i].entityName = viewQ[r][j].entityName) => i = j
        /\ walked[r] > 0 =>
              {<<viewQ[r][i].groupId, viewQ[r][i].entityName>> : i \in DOMAIN viewQ[r]} =
                  Range(GroupsOf(r)) \X EntityNames(opts.entityNameMap)

\* C24: in one request, two type tags that entityNameMap maps to the same entity name have
\* equal allow-lists, whatever the store answered to each query.
C24_SharedPermissionSet ==
    \A r \in Reqs :
        \A i, j \in DOMAIN opts.entityNameMap :
            LET T1 == opts.entityNameMap[i]
                T2 == opts.entityNameMap[j]
            IN (T1.entityName = T2.entityName /\ T1.typename \in DOMAIN allowedMap[r]
                    /\ T2.typename \in DOMAIN allowedMap[r]) =>
                   allowedMap[r][T1.typename] = allowedMap[r][T2.typename]


\* willSendResponse returns at its test of the authorization header: the response is a
\* single result with data, the operation is not a federation operation, the request has
\* headers and its authorization header starts with `bearer `
SkipsOnBearer(r) ==
    /\ pc[r] \in {"willSendResponse", "done"}
    /\ response[r].kind = "single"
    /\ response[r].data # Missing
    /\ ~IsFederationName(rc[r].operationName)
    /\ rc[r].headers.present
    /\ IsBearer(rc[r].headers.authorization)

\* the token of the request was refused, or the plugin has nothing to verify it with
Unverifiable(r) ==
    /\ rc[r].headers.present
    /\ IsBearer(rc[r].headers.authorization)
    /\ verifyQ[r] = "failed" \/ ~opts.m2mVerificationConfig

\* C25 as claimed: redaction is skipped on a Bearer header only for a request whose token
\* was verified, and no request with a Bearer token that failed verification or that
\* could not be verified for want of configuration has data in its response.
C25_AsClaimed ==
    \A r \in Reqs :
        /\ SkipsOnBearer(r) => verifyQ[r] = "ok"
        /\ Unverifiable(r) => response[r].data = Missing /\ ~ran[r]

\* C25 as amended: the same, the second part being said of the requests whose operation
\* is not a federation operation, which are let through before the credential is
\* looked at.
C25_BearerBypassVerified ==
    \A r \in Reqs :
        /\ SkipsOnBearer(r) =>
              /\ verifyQ[r] = "ok"
              /\ opts.m2mVerificationConfig
              /\ TokenOf(rc[r].headers.authorization) \in ValidTokens
        /\ (Unverifiable(r) /\ ~IsFederationName(rc[r].operationName)) =>
              /\ response[r].data = Missing
              /\ ~ran[r]
              /\ pc[r] \notin {"didResolveOperation", "verifyM2MToken"} => gate[r] = "deny"

\* a verified token on a query with a suffixed name: the redaction was skipped on the
\* Bearer header and the nested response went out whole
C25_Witness ==
    \E r \in Reqs :
        /\ SkipsOnBearer(r)
        /\ pc[r] = "done"
        /\ rc[r].headers.authorization = <<"Bearer", "good">>
        /\ verifyQ[r] = "ok"
        /\ walked[r] = 0
        /\ response[r].data = NestedResponse


\* in every object of inN that carries a __typename, outside the values of _id keys: the
\* tag is in the redacted object exactly when its root-stripped path is allowed for the
\* type resolved from the tag, and the other scalar fields of the object and the objects
\* below it are filtered with that type, whether the tag was deleted or not
RECURSIVE TagIsLeaf(_, _, _, _)
TagIsLeaf(inN, outN, enclosingType, path) ==
    IF inN.k = "arr"
    THEN \A i \in DOMAIN inN.e : TagIsLeaf(inN.e[i], outN.e[i], enclosingType, path)
    ELSE IF inN.k = "obj"
    THEN LET type == ClaimedType(inN, enclosingType)
             tagged == HasKey(inN, "__typename")
         IN /\ tagged =>
                  (HasKey(outN, "__typename")
                      <=> ClaimedPath(Append(path, "__typename")) \in ClaimedList(type))
            /\ \A i \in DOMAIN inN.f :
                  LET en == inN.f[i]
                  IN IF en.key = "_id" THEN TRUE
                     ELSE IF IsObjectLike(en.val)
                     THEN HasKey(outN, en.key) =>
                              TagIsLeaf(en.val, Get(outN, en.key), type, Append(path, en.key))
                     ELSE tagged =>
                              (HasKey(outN, en.key)
                                  <=> ClaimedPath(Append(path, en.key)) \in ClaimedList(type))
    ELSE TRUE

\* C26: __typename is deleted from an object unless its root-stripped path is in the
\* allow-list of the type resolved for the object, and that type, resolved from the tag
\* the object had on entry, filters the other fields of the object and is what its
\* children inherit.
C26_TypenameIsLeaf ==
    Len(ret) >= 1 => TagIsLeaf(arg.obj, ret[1], arg.currentTypename, <<>>)

\* a record tagged User where User may view name but not __typename: the tag is
\* deleted and name is kept under the list of User, the default list being empty
C26_Witness ==
    /\ Len(ret) >= 1
    /\ arg.obj = Obj(<<Entry("findAllUsers",
                          Obj(<<Entry("__typename", Scalar("User")),
                                Entry("name", Scalar("Ann"))>>))>>)
    /\ arg.allowedMap = [t \in {"User"} |-> {<<"name">>}]
    /\ arg.defaultAllowed = {}
    /\ arg.rootFieldNames = {"findAllUsers"}
    /\ arg.currentTypename = Undefined
    /\ ret[1] = Obj(<<Entry("findAllUsers", Obj(<<Entry("name", Scalar("Ann"))>>))>>)


\* outN is inN with some keys of some objects left out: no value is changed, no element
\* of an array is added, removed or moved
RECURSIVE Refines(_, _)
Refines(inN, outN) ==
    IF inN.k = "arr"
    THEN /\ outN.k = "arr"
         /\ Len(outN.e) = Len(inN.e)
         /\ \A i \in DOMAIN inN.e : Refines(inN.e[i], outN.e[i])
    ELSE IF inN.k = "obj"
    THEN /\ outN.k = "obj"
         /\ \A i \in DOMAIN outN.f :
               /\ HasKey(inN, outN.f[i].key)
               /\ Refines(Get(inN, outN.f[i].key), outN.f[i].val)
    ELSE outN = inN

\* every array-valued key of inN, outside the values of _id keys, is in outN exactly when
\* the array has an element
RECURSIVE ArraysKept(_, _)
ArraysKept(inN, outN) ==
    IF inN.k = "arr"
    THEN \A i \in DOMAIN inN.e : ArraysKept(inN.e[i], outN.e[i])
    ELSE IF inN.k = "obj"
    THEN \A i \in DOMAIN inN.f :
            LET en == inN.f[i]
            IN (en.key # "_id" /\ IsObjectLike(en.val)) =>
                  /\ en.val.k = "arr" => (HasKey(outN, en.key) <=> Len(en.val.e) > 0)
                  /\ HasKey(outN, en.key) => ArraysKept(en.val, Get(outN, en.key))
    ELSE TRUE

\* C27: every array that is still in the redacted tree has the elements it had, in their
\* order, each being its former self less some keys, possibly all; and an array-valued
\* key is removed from its object exactly when the array had no element.
C27_ArraysKeepElements ==
    Len(ret) >= 1 => Refines(arg.obj, ret[1]) /\ ArraysKept(arg.obj, ret[1])

\* two embedded documents in an array, nothing of them viewable: both stay as {}
C27_Witness ==
    /\ Len(ret) >= 1
    /\ arg.obj = Obj(<<Entry("findAllUsers",
                         Obj(<<Entry("name", Scalar("Ann")),
                               Entry("authData",
                                     Arr(<<Obj(<<Entry("name", Scalar("Ann"))>>),
                                           Obj(<<Entry("name", Scalar("Ann"))>>)>>))>>))>>)
    /\ ret[1] = Obj(<<Entry("findAllUsers",
                        Obj(<<Entry("name", Scalar("Ann")),
                              Entry("authData", Arr(<<Obj(<<>>), Obj(<<>>)>>))>>))>>)


\* the value of an entry of an object once the walk of that object is over: the walk does
\* not enter the value of _id, and recurses into any other container with the type
\* resolved for the object
AfterRecursion(en, type, path) ==
    IF en.key = "_id" THEN en.val
    ELSE removeDisallowedMultiEntity(en.val, arg.allowedMap, arg.defaultAllowed,
                                     arg.rootFieldNames, type, Append(path, en.key))

\* in every object of inN the keys in Keys(en) obey the rule: a container-valued key is
\* in outN exactly when its value has a key or an element once the walk is over, whatever
\* the allow-lists say of its path, and a null-valued key exactly when its path is allowed
RECURSIVE ContainersByContent(_, _, _, _, _)
ContainersByContent(inN, outN, enclosingType, path, idToo) ==
    IF inN.k = "arr"
    THEN \A i \in DOMAIN inN.e :
            ContainersByContent(inN.e[i], outN.e[i], enclosingType, path, idToo)
    ELSE IF inN.k = "obj"
    THEN LET type == ClaimedType(inN, enclosingType)
         IN \A i \in DOMAIN inN.f :
               LET en == inN.f[i]
               IN IF en.key = "_id" /\ ~idToo THEN TRUE
                  ELSE IF en.val.k \in {"obj", "arr"}
                  THEN /\ HasKey(outN, en.key) <=> KeyCount(AfterRecursion(en, type, path)) > 0
                       /\ KeyCount(en.val) = 0 => ~HasKey(outN, en.key)
                       /\ (HasKey(outN, en.key) /\ en.key # "_id") =>
                              ContainersByContent(en.val, Get(outN, en.key), type,
                                                  Append(path, en.key), idToo)
                  ELSE en.val = Null =>
                          (HasKey(outN, en.key)
                              <=> ClaimedPath(Append(path, en.key)) \in ClaimedList(type))
    ELSE TRUE

\* C28 as claimed: every key whose value is an object or an array is kept exactly when
\* the value has a key or an element after the recursion, so a key whose value is empty in
\* the input is always removed, and a null-valued key is kept exactly when its path is
\* allowed.
C28_AsClaimed ==
    Len(ret) >= 1 => ContainersByContent(arg.obj, ret[1], arg.currentTypename, <<>>, TRUE)

\* C28 as amended: the same of every key other than _id, which the walk keeps with its
\* value untouched, an empty object included.
C28_ContainersByContent ==
    Len(ret) >= 1 => ContainersByContent(arg.obj, ret[1], arg.currentTypename, <<>>, FALSE)

\* an empty embedded document whose path the list of User holds: the key is removed
C28_Witness ==
    /\ Len(ret) >= 1
    /\ arg.obj = Obj(<<Entry("findAllUsers",
                         Obj(<<Entry("__typename", Scalar("User")),
                               Entry("name", Scalar("Ann")),
                               Entry("authData", Obj(<<>>))>>))>>)
    /\ arg.allowedMap =
          [t \in {"User"} |-> {<<"name">>, <<"authData">>, <<"authData", "name">>, <<"__typename">>}]
    /\ arg.rootFieldNames = {"findAllUsers"}
    /\ ret[1] = Obj(<<Entry("findAllUsers",
                        Obj(<<Entry("__typename", Scalar("User")),
                              Entry("name", Scalar("Ann"))>>))>>)


\* C29: a request that has no header object is never denied, none of its credentials is
\* classified or verified, no permission query is issued for it by either hook, its data
\* is never walked, and what it sends is what the resolvers produced.
C29_NoHeadersUngated ==
    \A r \in Reqs :
        ~rc[r].headers.present =>
            /\ gate[r] # "deny"
            /\ pc[r] # "didResolveOperation" => gate[r] = "proceed"
            /\ error[r] = NoError
            /\ verifyQ[r] = "none"
            /\ execQ[r] = <<>>
            /\ viewQ[r] = <<>>
            /\ allowedMap[r] = NoMap
            /\ walked[r] = 0
            /\ pc[r] = "done" => /\ ran[r]
                                 /\ response[r].kind = "single" => response[r].data = produced[r]

\* a findAllUsers request without headers, on a store where group A holds no grant: the
\* user record went out with its email
C29_Witness ==
    \E r \in Reqs :
        /\ rc[r].headers = NoHeaders
        /\ rc[r].operationName = OpFindAllUsers
        /\ grants.ops[GroupA] = <<>>
        /\ pc[r] = "done"
        /\ gate[r] = "proceed"
        /\ response[r] = [kind |-> "single", data |-> E2EResponse]


\* the gate of request r has reached an outcome
Decided(r) == gate[r] \in {"proceed", "deny"}

\* C30: when the verifier and the store settle every call, the didResolveOperation of every
\* request eventually reaches an outcome, proceed or deny, and the outcome it has reached
\* never changes afterwards.
C30_GateLiveness ==
    /\ \A r \in {1} : <>Decided(r)
    /\ [][\A r \in Reqs : Decided(r) => gate'[r] = gate[r]]_vars

\* two groups neither of which holds a grant: both queries have settled, one with an
\* error, and the gate is at the denial it reached on the first answer
C30_Witness ==
    \E r \in Reqs :
        /\ Len(execQ[r]) = 2
        /\ execQ[r][1].reply = "error"
        /\ execQ[r][2].reply = "ok"
        /\ ~execQ[r][2].value
        /\ gate[r] = "deny"
        /\ error[r].kind = "notAllowed"

====
